---- MODULE Spec2Model ----
(***************************************************************************)
(* Model of the PySLM DXF generator scripts: the DXF helper functions of   *)
(* modules/geometry_processing.py and of the stand-alone scripts, and the  *)
(* staged pipelines of unified_blocked.py.                                 *)
(*                                                                         *)
(* Numbers.  A coordinate is an integer number of 1e-7 mm, so that the     *)
(* rounding to 6 decimals (clean DXF) and the formatting with 3 decimals   *)
(* (machine format) both lose digits.  Text is modelled by TLA+ strings.   *)
(***************************************************************************)
EXTENDS Integers, Sequences, FiniteSets, TLC

\* ------------------------------------------------------------------------
\* Bounds of the model
\* ------------------------------------------------------------------------
MaxPts == 3
MaxEnt == 2
MaxGeoms == 2

MaxZ == 2

MaxSettings == 2

\* ------------------------------------------------------------------------
\* Generic helpers
\* ------------------------------------------------------------------------
Abs(n) == IF n < 0 THEN -n ELSE n

Min2(a, b) == IF a <= b THEN a ELSE b

Max2(a, b) == IF a >= b THEN a ELSE b

RECURSIVE FlattenFrom(_, _)
FlattenFrom(ss, i) == IF i > Len(ss) THEN <<>> ELSE ss[i] \o FlattenFrom(ss, i + 1)

\* the concatenation of the sequences of ss (ss is evaluated once)
Flatten(ss) == CHOOSE flat \in {FlattenFrom(s, 1) : s \in {ss}} : TRUE

RECURSIVE SumFrom(_, _)
SumFrom(ns, i) == IF i > Len(ns) THEN 0 ELSE ns[i] + SumFrom(ns, i + 1)

SumSeq(ns) == SumFrom(ns, 1)

SeqsUpTo(S, n) == UNION {[1..k -> S] : k \in 0..n}

\* ------------------------------------------------------------------------
\* Number conversions
\* ------------------------------------------------------------------------
\* Nearest multiple of m, an exact tie going to the even multiple (the rule
\* of Python's round() and of its 'f' format).
RoundHalfEven(c, m) ==
    LET q == c \div m
        r == c % m
    IN  IF 2 * r < m THEN q * m
        ELSE IF 2 * r > m THEN (q + 1) * m
        ELSE IF q % 2 = 0 THEN q * m ELSE (q + 1) * m

\* round(x, 6): the nearest multiple of 1e-6 mm, i.e. of 10 units.
Round6(c) == RoundHalfEven(c, 10)

Pad3(n) == IF n < 10 THEN "00" \o ToString(n)
           ELSE IF n < 100 THEN "0" \o ToString(n)
           ELSE ToString(n)

\* f"{x:.3f}": sign, integer part, '.', three decimals; a negative value
\* that rounds to zero keeps its sign ("-0.000").
Fmt3(c) ==
    LET t == RoundHalfEven(Abs(c), 10000) \div 10000
    IN  (IF c < 0 THEN "-" ELSE "") \o ToString(t \div 1000) \o "." \o Pad3(t % 1000)

\* ------------------------------------------------------------------------
\* DXF documents
\* ------------------------------------------------------------------------
\* A file is [exists, err, msp]: whether the path exists, the exception
\* ezdxf.readfile() raises on it ("" when it returns a document), and the
\* modelspace of the document, a sequence of entities in file order:
\*   LWPOLYLINE  points: 5-tuples (x, y, start_width, end_width, bulge)
\*   POLYLINE    vertices: [hasloc, loc]; hasloc is the outcome of the
\*               hasattr() guard of the code, loc is (x, y, z)
\*   LINE        start, end: (x, y, z)
\*   CIRCLE      center: (x, y, z), with a radius
LwPoint(p) == <<p[1], p[2], 0, 0, 0>>

Vec3(p) == <<p[1], p[2], 0>>

Vertex(p) == [hasloc |-> TRUE, loc |-> Vec3(p)]

NoLocVertex == [hasloc |-> FALSE, loc |-> <<0, 0, 0>>]

LwPolyline(pts, closed) == [kind |-> "LWPOLYLINE", points |-> pts, closed |-> closed]

Polyline(vs, closed) == [kind |-> "POLYLINE", vertices |-> vs, closed |-> closed]

Line(start, end) == [kind |-> "LINE", start |-> start, end |-> end]

Circle(center, radius) ==
    [kind |-> "CIRCLE", center |-> center, radius |-> radius]

DxfFile(msp) == [exists |-> TRUE, err |-> "", msp |-> msp]

BadFile(err) == [exists |-> TRUE, err |-> err, msp |-> <<>>]

MissingFile == [exists |-> FALSE, err |-> "FileNotFoundError", msp |-> <<>>]

\* ezdxf.readfile(path) followed by doc.modelspace() succeeds.
Readable(file) == file.exists /\ file.err = ""

\* msp.query(kind): the entities of one kind, in file order.
Query(msp, kind) == SelectSeq(msp, LAMBDA e : e.kind = kind)

\* ------------------------------------------------------------------------
\* Line extraction (its four copies)
\* ------------------------------------------------------------------------
\* (p[0], p[1]) of a point, vertex location or line end
XY(p) == <<p[1], p[2]>>

\* for i in range(len(points) - 1): append [points[i], points[i+1]]
RECURSIVE ConsecutiveSegments(_, _)
ConsecutiveSegments(points, i) ==
    IF i > Len(points) - 1 THEN <<>>
    ELSE << <<XY(points[i]), XY(points[i + 1])>> >> \o ConsecutiveSegments(points, i + 1)

\* the body of "for entity in msp.query('LWPOLYLINE')" of get_line_segments_from_dxf
LwSegments_NoClosing(entity) ==
    LET points == entity.points
    IN  IF Len(points) >= 2 THEN ConsecutiveSegments(points, 1) ELSE <<>>

LwSegments(entity) ==
    LET points == entity.points
    IN  IF Len(points) >= 2
        THEN ConsecutiveSegments(points, 1) \o
             (IF entity.closed /\ Len(points) > 2
              THEN << <<XY(points[Len(points)]), XY(points[1])>> >>
              ELSE <<>>)
        ELSE <<>>

\* the same loop in convert_dxf_to_lines_only_machine_format: the closing
\* segment starts at (points[-1][0], points[0][1])
LwSegments_MF(entity) ==
    LET points == entity.points
    IN  IF Len(points) >= 2
        THEN ConsecutiveSegments(points, 1) \o
             (IF entity.closed /\ Len(points) > 2
              THEN << << <<points[Len(points)][1], points[1][2]>>, XY(points[1]) >> >>
              ELSE <<>>)
        ELSE <<>>

\* current_polyline_points: the locations of the vertices that pass the guard
CurrentPolylinePoints(vs) ==
    Flatten([n \in 1..Len(vs) |-> IF vs[n].hasloc THEN <<XY(vs[n].loc)>> ELSE <<>>])

\* the body of "for entity in msp.query('POLYLINE')"
PolySegments(entity) ==
    LET current_polyline_points == CurrentPolylinePoints(entity.vertices)
    IN  IF Len(current_polyline_points) >= 2
        THEN ConsecutiveSegments(current_polyline_points, 1) \o
             (IF entity.closed /\ Len(current_polyline_points) > 2
              THEN << <<XY(current_polyline_points[Len(current_polyline_points)]),
                        XY(current_polyline_points[1])>> >>
              ELSE <<>>)
        ELSE <<>>

\* the body of "for entity in msp.query('LINE')"
LineSegment(entity) == << <<XY(entity.start), XY(entity.end)>> >>

\* the three loops of get_line_segments_from_dxf, modules/geometry_processing.py
ExtractSegments(msp) ==
    Flatten([n \in 1..Len(Query(msp, "LWPOLYLINE")) |-> LwSegments(Query(msp, "LWPOLYLINE")[n])])
    \o Flatten([n \in 1..Len(Query(msp, "POLYLINE")) |-> PolySegments(Query(msp, "POLYLINE")[n])])
    \o Flatten([n \in 1..Len(Query(msp, "LINE")) |-> LineSegment(Query(msp, "LINE")[n])])

\* get_line_segments_from_dxf of modules/geometry_processing.py
get_line_segments_from_dxf(file) ==
    IF ~Readable(file) THEN <<>> ELSE ExtractSegments(file.msp)

\* get_line_segments_from_dxf of support_DXF_to_clean_DXF.py
LwSegments_CL(entity) ==
    LET points == entity.points
    IN  IF Len(points) >= 2
        THEN ConsecutiveSegments(points, 1) \o
             (IF entity.closed /\ Len(points) > 2
              THEN << <<XY(points[Len(points)]), XY(points[1])>> >>
              ELSE <<>>)
        ELSE <<>>

get_line_segments_from_dxf_CL(file) ==
    IF ~Readable(file) THEN <<>>
    ELSE Flatten([n \in 1..Len(Query(file.msp, "LWPOLYLINE")) |-> LwSegments_CL(Query(file.msp, "LWPOLYLINE")[n])])
         \o Flatten([n \in 1..Len(Query(file.msp, "POLYLINE")) |-> PolySegments(Query(file.msp, "POLYLINE")[n])])
         \o Flatten([n \in 1..Len(Query(file.msp, "LINE")) |-> LineSegment(Query(file.msp, "LINE")[n])])

\* all_line_segments of convert_dxf_to_lines_only_machine_format
AllLineSegments_MF(msp) ==
    Flatten([n \in 1..Len(Query(msp, "LWPOLYLINE")) |-> LwSegments_MF(Query(msp, "LWPOLYLINE")[n])])
    \o Flatten([n \in 1..Len(Query(msp, "POLYLINE")) |-> PolySegments(Query(msp, "POLYLINE")[n])])
    \o Flatten([n \in 1..Len(Query(msp, "LINE")) |-> LineSegment(Query(msp, "LINE")[n])])

\* all_line_segments of convert_dxf_to_lines_only, support_DXF_to_machine_TXT_or_DXF.py
LwSegments_LO(entity) ==
    LET points == entity.points
    IN  IF Len(points) >= 2
        THEN ConsecutiveSegments(points, 1) \o
             (IF entity.closed /\ Len(points) > 2
              THEN << <<XY(points[Len(points)]), XY(points[1])>> >>
              ELSE <<>>)
        ELSE <<>>

AllLineSegments_LO(msp) ==
    Flatten([n \in 1..Len(Query(msp, "LWPOLYLINE")) |-> LwSegments_LO(Query(msp, "LWPOLYLINE")[n])])
    \o Flatten([n \in 1..Len(Query(msp, "POLYLINE")) |-> PolySegments(Query(msp, "POLYLINE")[n])])
    \o Flatten([n \in 1..Len(Query(msp, "LINE")) |-> LineSegment(Query(msp, "LINE")[n])])

\* ------------------------------------------------------------------------
\* Writers
\* ------------------------------------------------------------------------
\* create_simplified_dxf_for_laser of modules/geometry_processing.py: the
\* modelspace of the new document after the loop over line_segments
SimplifiedLine_Unrounded(segment) ==
    Line(Vec3(<<segment[1][1], segment[1][2]>>), Vec3(<<segment[2][1], segment[2][2]>>))

SimplifiedLine(segment) ==
    LET start_point == segment[1]
        end_point == segment[2]
        start_point_rounded == <<Round6(start_point[1]), Round6(start_point[2])>>
        end_point_rounded == <<Round6(end_point[1]), Round6(end_point[2])>>
    IN  Line(Vec3(start_point_rounded), Vec3(end_point_rounded))

create_simplified_dxf_for_laser(line_segments) ==
    [i \in 1..Len(line_segments) |-> SimplifiedLine(line_segments[i])]

\* create_simplified_dxf_for_laser of support_DXF_to_clean_DXF.py
create_simplified_dxf_for_laser_CL(line_segments) ==
    [i \in 1..Len(line_segments) |->
        LET start_point == line_segments[i][1]
            end_point == line_segments[i][2]
        IN  Line(Vec3(<<Round6(start_point[1]), Round6(start_point[2])>>),
                 Vec3(<<Round6(end_point[1]), Round6(end_point[2])>>))]

\* The text a sequence of f.write() calls leaves in a file.
RECURSIVE WrittenRange(_, _, _)
WrittenRange(writes, lo, hi) ==
    IF lo > hi THEN ""
    ELSE IF lo = hi THEN writes[lo]
    ELSE WrittenRange(writes, lo, (lo + hi) \div 2)
         \o WrittenRange(writes, (lo + hi) \div 2 + 1, hi)

Written(writes) == CHOOSE text \in {WrittenRange(w, 1, Len(w)) : w \in {writes}} : TRUE

\* the one f.write() per segment of convert_dxf_to_lines_only_machine_format
SegmentText_MF_NoTerminator(segment) ==
    "0\nLINE\n8\n0\n10\n" \o Fmt3(segment[1][1]) \o "\n20\n" \o Fmt3(segment[1][2])
    \o "\n11\n" \o Fmt3(segment[2][1]) \o "\n21\n" \o Fmt3(segment[2][2]) \o "\n"

SegmentText_MF(segment) ==
    LET start_x == segment[1][1]
        start_y == segment[1][2]
        end_x == segment[2][1]
        end_y == segment[2][2]
    IN  "0\nLINE\n8\n0\n10\n" \o Fmt3(start_x) \o "\n20\n" \o Fmt3(start_y)
        \o "\n11\n" \o Fmt3(end_x) \o "\n21\n" \o Fmt3(end_y) \o "\n0\n"

\* the with-block of convert_dxf_to_lines_only_machine_format
MachineText_MF(all_line_segments) ==
    Written(<<"0\nSECTION\n2\nENTITIES\n">>
            \o [i \in 1..Len(all_line_segments) |-> SegmentText_MF(all_line_segments[i])]
            \o <<"0\nENDSEC\n0\nEOF\n">>)

\* the thirteen f.write() calls per segment of convert_dxf_to_lines_only
SegmentWrites_LO(segment) ==
    LET start_x == segment[1][1]
        start_y == segment[1][2]
        end_x == segment[2][1]
        end_y == segment[2][2]
    IN  <<"0\n", "LINE\n", "8\n", "0\n",
          "10\n", Fmt3(start_x) \o "\n",
          "20\n", Fmt3(start_y) \o "\n",
          "11\n", Fmt3(end_x) \o "\n",
          "21\n", Fmt3(end_y) \o "\n",
          "0\n">>

\* the with-block of convert_dxf_to_lines_only
MachineText_LO(all_line_segments) ==
    Written(<<"0\n", "SECTION\n", "2\n", "ENTITIES\n">>
            \o Flatten([n \in 1..Len(all_line_segments) |-> SegmentWrites_LO(all_line_segments[n])])
            \o <<"0\n", "ENDSEC\n", "0\n", "EOF\n">>)

\* A text file that is (not) there.
TextFile(text) == [written |-> TRUE, text |-> text]

NoTextFile == [written |-> FALSE, text |-> ""]

\* ------------------------------------------------------------------------
\* Layer export
\* ------------------------------------------------------------------------
\* A layer is its geometry list; a geometry is [type, coords] with type
\* "contour", "hatch" or "points" and coords a sequence of (x, y).
Geometry(type, coords) == [type |-> type, coords |-> coords]

\* layer.getContourGeometry(), getHatchGeometry(), getPointsGeometry()
GeometryOfType(layer, type) == SelectSeq(layer, LAMBDA g : g.type = type)

CIRCLE_RADIUS == 200000

\* the loop "for i in range(0, len(coords), 2)": coords[i:i+2] must unpack
\* into start and end
RECURSIVE HatchLines_Overlapping(_, _)
HatchLines_Overlapping(coords, i) ==
    IF i + 1 > Len(coords) THEN <<>>
    ELSE <<Line(Vec3(coords[i]), Vec3(coords[i + 1]))>> \o HatchLines_Overlapping(coords, i + 1)

RECURSIVE HatchLines(_, _)
HatchLines(coords, i) ==
    IF i > Len(coords) THEN <<>>
    ELSE <<Line(Vec3(coords[i]), Vec3(coords[i + 1]))>> \o HatchLines(coords, i + 2)

\* whether the unpacking of a one-element slice raises ValueError
HatchRaises(layer) ==
    \E j \in 1..Len(layer) : layer[j].type = "hatch" /\ Len(layer[j].coords) % 2 = 1

ContourPolyline(geom) == <<LwPolyline([n \in 1..Len(geom.coords) |-> LwPoint(geom.coords[n])], TRUE)>>

HatchLinesOf(geom) == HatchLines(geom.coords, 1)

PointCircles(geom) == [i \in 1..Len(geom.coords) |-> Circle(Vec3(geom.coords[i]), CIRCLE_RADIUS)]

\* export_layer_to_dxf of modules/geometry_processing.py: the file saved,
\* or no file when the export raises
export_layer_to_dxf(layer) ==
    IF HatchRaises(layer) THEN MissingFile
    ELSE DxfFile(Flatten([n \in 1..Len(GeometryOfType(layer, "contour")) |-> ContourPolyline(GeometryOfType(layer, "contour")[n])])
                 \o Flatten([n \in 1..Len(GeometryOfType(layer, "hatch")) |-> HatchLinesOf(GeometryOfType(layer, "hatch")[n])])
                 \o Flatten([n \in 1..Len(GeometryOfType(layer, "points")) |-> PointCircles(GeometryOfType(layer, "points")[n])]))

\* export_layer_to_dxf of STL_solid_support_to_DXF.py
export_layer_to_dxf_SS(layer) ==
    IF HatchRaises(layer) THEN MissingFile
    ELSE DxfFile([j \in 1..Len(GeometryOfType(layer, "contour")) |->
                     LwPolyline([n \in 1..Len(GeometryOfType(layer, "contour")[j].coords) |-> LwPoint(GeometryOfType(layer, "contour")[j].coords[n])], TRUE)]
                 \o Flatten([n \in 1..Len(GeometryOfType(layer, "hatch")) |-> HatchLinesOf(GeometryOfType(layer, "hatch")[n])])
                 \o Flatten([n \in 1..Len(GeometryOfType(layer, "points")) |-> PointCircles(GeometryOfType(layer, "points")[n])]))

\* ------------------------------------------------------------------------
\* Text
\* ------------------------------------------------------------------------
IsNewline(text, i) == SubSeq(text, i, i) = "\n"

\* text[lo..hi] cut at its newlines, as str.split("\n") cuts it
RECURSIVE SplitLines(_, _, _)
SplitLines(text, lo, hi) ==
    LET newlines == {p \in lo..hi : IsNewline(text, p)}
        mid == (lo + hi) \div 2
    IN  IF newlines = {} THEN <<SubSeq(text, lo, hi)>>
        ELSE LET p == CHOOSE q \in newlines : \A r \in newlines : Abs(q - mid) <= Abs(r - mid)
             IN  SplitLines(text, lo, p - 1) \o SplitLines(text, p + 1, hi)

\* the lines of a text, each ended by a newline (a last line without one
\* counts too)
Lines(text) ==
    LET pieces == SplitLines(text, 1, Len(text))
    IN  IF pieces[Len(pieces)] = "" THEN SubSeq(pieces, 1, Len(pieces) - 1) ELSE pieces

IsDigit(ch) == \E d \in 0..9 : ToString(d) = ch

DigitOf(ch) == CHOOSE d \in 0..9 : ToString(d) = ch

RECURSIVE ParseNatFrom(_, _, _)
ParseNatFrom(str, i, acc) ==
    IF i > Len(str) THEN acc
    ELSE ParseNatFrom(str, i + 1, 10 * acc + DigitOf(SubSeq(str, i, i)))

ParseNat(str, acc) == ParseNatFrom(str, 1, acc)

\* The characters file names and arguments are made of, in code order.
Alphabet == " +-.0123456789ABCDEFGHIJKLMNOPQRSTUVWXYZ_abcdefghijklmnopqrstuvwxyz"

CharAt(str, i) == SubSeq(str, i, i)

Chars == {CharAt(Alphabet, k) : k \in 1..Len(Alphabet)}

\* the position of each character in the alphabet
CharCodes == [ch \in Chars |-> CHOOSE k \in 1..Len(Alphabet) : CharAt(Alphabet, k) = ch]

CharCode(ch) == CharCodes[ch]

\* str.lower() of each character
LowerChars ==
    [ch \in Chars |->
        IF CharCodes[ch] >= CharCodes["A"] /\ CharCodes[ch] <= CharCodes["Z"]
        THEN CharAt(Alphabet, CharCodes[ch] - CharCodes["A"] + CharCodes["a"])
        ELSE ch]

LowerChar(ch) == LowerChars[ch]

RECURSIVE LowerFrom(_, _)
LowerFrom(str, i) ==
    IF i > Len(str) THEN "" ELSE LowerChar(CharAt(str, i)) \o LowerFrom(str, i + 1)

Lower(str) == LowerFrom(str, 1)

\* str.endswith(suffix)
EndsWith(str, suffix) ==
    Len(str) >= Len(suffix) /\ SubSeq(str, Len(str) - Len(suffix) + 1, Len(str)) = suffix

\* a < b for strings, as sorted() compares them
RECURSIVE StrLessFrom(_, _, _)
StrLessFrom(a, b, i) ==
    IF i > Len(b) THEN FALSE
    ELSE IF i > Len(a) THEN TRUE
    ELSE IF CharAt(a, i) = CharAt(b, i) THEN StrLessFrom(a, b, i + 1)
    ELSE CharCode(CharAt(a, i)) < CharCode(CharAt(b, i))

StrLess(a, b) == StrLessFrom(a, b, 1)

\* sorted(names)
SortedSet(S) ==
    [i \in 1..Cardinality(S) |->
        CHOOSE a \in S : Cardinality({b \in S : StrLess(b, a)}) = i - 1]

Sorted(names) == CHOOSE sorted \in {SortedSet(S) : S \in {names}} : TRUE

\* pathlib.Path(name).stem for a name that ends in a 4-character suffix
Stem(name) == SubSeq(name, 1, Len(name) - 4)

\* str.strip() of blanks
Strip(str) ==
    LET inked == {i \in 1..Len(str) : CharAt(str, i) # " "}
    IN  IF inked = {} THEN ""
        ELSE SubSeq(str, CHOOSE i \in inked : \A j \in inked : i <= j,
                         CHOOSE i \in inked : \A j \in inked : i >= j)

\* int(str): whether it raises ValueError, and its value otherwise
Unsigned(str) ==
    LET t == Strip(str)
    IN  IF t # "" /\ CharAt(t, 1) \in {"+", "-"} THEN SubSeq(t, 2, Len(t)) ELSE t

IntRaises(str) ==
    LET u == Unsigned(str)
    IN  u = "" \/ \E i \in 1..Len(u) : ~IsDigit(CharAt(u, i))

IntValue(str) ==
    LET t == Strip(str)
        v == ParseNat(Unsigned(str), 0)
    IN  IF CharAt(t, 1) = "-" THEN -v ELSE v

\* ------------------------------------------------------------------------
\* Parameters and file names of the pipelines
\* ------------------------------------------------------------------------
\* modules/parameters.py; lengths in 1e-7 mm, angles in tenths of a degree
LAYER_THICKNESS == 300000

HATCH_ANGLE_INITIAL == 100

HATCH_ANGLE_INCREMENT == 667

\* the z the part is dropped to: dropToPlatform(5) and dropToPlatform()
PLATFORM_Z_ORIGINAL == 50000000

PLATFORM_Z_SUPPORTED == 0

CeilDiv(a, b) == -((-a) \div b)

\* np.arange(min_z, max_z + LAYER_THICKNESS / 2, LAYER_THICKNESS)
ZPositions(min_z, max_z) ==
    LET stop == max_z + LAYER_THICKNESS \div 2
        n == IF stop > min_z THEN CeilDiv(stop - min_z, LAYER_THICKNESS) ELSE 0
    IN  [k \in 1..n |-> min_z + (k - 1) * LAYER_THICKNESS]

\* f"{model_name}_layer{layer_idx}.dxf"
RawName(name, idx) == name \o "_layer" \o ToString(idx) \o ".dxf"

\* f"clean_{dxf_file}"
CleanName(dxf_file) == "clean_" \o dxf_file

\* f"machine_{base_filename}.dxf" with base_filename the stem of the clean file
MachineName(filename) == "machine_" \o Stem(filename) \o ".dxf"

\* f"{part_name}_auto_machine_parameters.txt"
ParamName(part_name) == part_name \o "_auto_machine_parameters.txt"

\* f.lower().endswith('.dxf')
IsDxfName(f) == EndsWith(Lower(f), ".dxf")

\* f.lower().endswith(('.dxf', '.txt'))
IsLayerFileName_CaseSensitive(f) == EndsWith(f, ".dxf") \/ EndsWith(f, ".txt")

IsLayerFileName(f) == EndsWith(Lower(f), ".dxf") \/ EndsWith(Lower(f), ".txt")

\* sorted([f for f in os.listdir(folder) if f.lower().endswith('.dxf')])
ListDxf(folder) == Sorted({f \in DOMAIN folder : IsDxfName(f)})

\* sorted([... if f.lower().endswith(('.dxf', '.txt'))])
ListLayerFiles(folder) == Sorted({f \in DOMAIN folder : IsLayerFileName(f)})

\* the file of a batch that follows file i once file i has been skipped
SkipTo_Abort(i, n) == n + 1

SkipTo(i, n) == i + 1

\* a folder after a file is written into it
Put(folder, name, file) ==
    [n \in (DOMAIN folder) \cup {name} |-> IF n = name THEN file ELSE folder[n]]

EmptyFolder == [n \in {} |-> NoTextFile]

\* str(x) of a float x given in 1e-7 units: the shortest decimal text
StripZeros(digits) ==
    LET kept == {n \in 1..Len(digits) : n = 1 \/ CharAt(digits, n) # "0"}
    IN  IF kept = {} THEN digits
        ELSE SubSeq(digits, 1, CHOOSE n \in kept : \A m \in kept : n >= m)

RECURSIVE PadLeft(_, _)
PadLeft(digits, width) == IF Len(digits) >= width THEN digits ELSE PadLeft("0" \o digits, width)

FloatStr(c) ==
    (IF c < 0 THEN "-" ELSE "") \o ToString(Abs(c) \div 10000000) \o "."
    \o StripZeros(PadLeft(ToString(Abs(c) % 10000000), 7))

\* final_parameters of generate_manufacturing_parameters_file, as texts
FinalParameters(part_name, number_of_layers, layer_thickness) ==
    << <<"PART NAME", part_name>>,
       <<"MINX", FloatStr(-79000000)>>,
       <<"MAXX", FloatStr(79000000)>>,
       <<"MINY", FloatStr(-79000000)>>,
       <<"MAXY", FloatStr(79000000)>>,
       <<"NUMBER OF LAYERS", ToString(number_of_layers)>>,
       <<"LAYER THICKNESS", FloatStr(layer_thickness)>>,
       <<"HATCH POWER 1", ToString(40)>>,
       <<"HATCH SPEED 1", ToString(170)>>,
       <<"VBPP1", ToString(1)>>,
       <<"MAGNIFICATION 1", FloatStr(10000000)>>,
       <<"HATCH POWER 2", ToString(42)>>,
       <<"HATCH SPEED 2", ToString(1202)>>,
       <<"VBPP2", ToString(2)>>,
       <<"MAGNIFICATION 2", FloatStr(10000000)>>,
       <<"HATCH POWER 3", ToString(43)>>,
       <<"HATCH SPEED 3", ToString(1203)>>,
       <<"VBPP3", ToString(3)>>,
       <<"MAGNIFICATION 3", FloatStr(10000000)>>,
       <<"NUMBER OF PASSES", ToString(1)>>,
       <<"CONTOUR POWER", ToString(11)>>,
       <<"CONTOUR SPEED", ToString(1001)>> >>

\* the two f.write() calls per item of final_parameters
ParameterText_OneLine(final_parameters) ==
    Written([n \in 1..Len(final_parameters) |->
                "[" \o final_parameters[n][1] \o "] " \o final_parameters[n][2] \o "\n"])

ParameterText(final_parameters) ==
    Written(Flatten([n \in 1..Len(final_parameters) |->
                        <<"[" \o final_parameters[n][1] \o "]\n",
                          final_parameters[n][2] \o "\n">>]))

\* ------------------------------------------------------------------------
\* manufacture_parameters.py
\* ------------------------------------------------------------------------
\* the LWPOLYLINE loop of get_dxf_line_segments
LwSegments_MP(entity) ==
    LET points == entity.points
    IN  ConsecutiveSegments(points, 1) \o
        (IF entity.closed /\ Len(points) > 2
         THEN << <<XY(points[Len(points)]), XY(points[1])>> >>
         ELSE <<>>)

\* whether vertex.dxf.location raises for a vertex of the polyline
PolyRaises_MP(entity) == \E n \in 1..Len(entity.vertices) : ~entity.vertices[n].hasloc

\* the body of the POLYLINE loop for a polyline whose vertices are located
PolySegments_MP(entity) ==
    LET current_polyline_points == [n \in 1..Len(entity.vertices) |-> XY(entity.vertices[n].loc)]
    IN  IF Len(current_polyline_points) >= 2
        THEN ConsecutiveSegments(current_polyline_points, 1) \o
             (IF entity.closed /\ Len(current_polyline_points) > 2
              THEN << <<XY(current_polyline_points[Len(current_polyline_points)]),
                        XY(current_polyline_points[1])>> >>
              ELSE <<>>)
        ELSE <<>>

\* the POLYLINE loop: an exception ends it and is swallowed, the segments
\* appended so far are returned
RECURSIVE PolyLoop_MP(_)
PolyLoop_MP(polylines) ==
    IF polylines = <<>> \/ PolyRaises_MP(Head(polylines)) THEN <<>>
    ELSE PolySegments_MP(Head(polylines)) \o PolyLoop_MP(Tail(polylines))

\* get_dxf_line_segments(dxf_path): LINE, then LWPOLYLINE, then POLYLINE
get_dxf_line_segments(file) ==
    IF ~Readable(file) THEN <<>>
    ELSE Flatten([n \in 1..Len(Query(file.msp, "LINE")) |-> LineSegment(Query(file.msp, "LINE")[n])])
         \o Flatten([n \in 1..Len(Query(file.msp, "LWPOLYLINE")) |-> LwSegments_MP(Query(file.msp, "LWPOLYLINE")[n])])
         \o PolyLoop_MP(Query(file.msp, "POLYLINE"))

\* a value of the parameter table: an int, a float (in 1e-7 units) or a str
IntVal(n) == [kind |-> "int", num |-> n, str |-> ""]

FloatVal(c) == [kind |-> "float", num |-> c, str |-> ""]

StrVal(t) == [kind |-> "str", num |-> 0, str |-> t]

\* f"{value}"
Str(value) ==
    IF value.kind = "int" THEN ToString(value.num)
    ELSE IF value.kind = "float" THEN FloatStr(value.num)
    ELSE value.str

\* a dict is the sequence of its (key, value) items in insertion order
Keys(dict) == [n \in 1..Len(dict) |-> dict[n][1]]

HasKey(dict, key) == \E n \in 1..Len(dict) : dict[n][1] = key

\* dict[key] = value: an old key keeps its place, a new key goes last
DictSet_Append(dict, key, value) == Append(dict, <<key, value>>)

DictSet(dict, key, value) ==
    IF HasKey(dict, key)
    THEN [n \in 1..Len(dict) |-> IF dict[n][1] = key THEN <<key, value>> ELSE dict[n]]
    ELSE Append(dict, <<key, value>>)

\* "for key, value in machine_settings.items(): final_parameters[key] = value"
RECURSIVE DictUpdate(_, _)
DictUpdate(dict, items) ==
    IF items = <<>> THEN dict
    ELSE DictUpdate(DictSet(dict, items[1][1], items[1][2]), Tail(items))

\* final_parameters of generate_auto_parameters_file before the overrides
DefaultParameters(part_name, number_of_layers, layer_thickness) ==
    << <<"PART NAME", StrVal(part_name)>>,
       <<"MINX", FloatVal(-79000000)>>,
       <<"MAXX", FloatVal(79000000)>>,
       <<"MINY", FloatVal(-79000000)>>,
       <<"MAXY", FloatVal(79000000)>>,
       <<"NUMBER OF LAYERS", IntVal(number_of_layers)>>,
       <<"LAYER THICKNESS", FloatVal(layer_thickness)>>,
       <<"HATCH POWER 1", IntVal(40)>>,
       <<"HATCH SPEED 1", IntVal(170)>>,
       <<"VBPP1", IntVal(1)>>,
       <<"MAGNIFICATION 1", FloatVal(10000000)>>,
       <<"HATCH POWER 2", IntVal(42)>>,
       <<"HATCH SPEED 2", IntVal(1202)>>,
       <<"VBPP2", IntVal(2)>>,
       <<"MAGNIFICATION 2", FloatVal(10000000)>>,
       <<"HATCH POWER 3", IntVal(43)>>,
       <<"HATCH SPEED 3", IntVal(1203)>>,
       <<"VBPP3", IntVal(3)>>,
       <<"MAGNIFICATION 3", FloatVal(10000000)>>,
       <<"NUMBER OF PASSES", IntVal(1)>>,
       <<"CONTOUR POWER", IntVal(11)>>,
       <<"CONTOUR SPEED", IntVal(1001)>> >>

\* final_parameters of generate_auto_parameters_file as written
FinalParameters_MP(part_name, number_of_layers, layer_thickness, machine_settings) ==
    DictUpdate(DefaultParameters(part_name, number_of_layers, layer_thickness), machine_settings)

\* the two f.write() calls per item
ParameterText_MP(final_parameters) ==
    Written(Flatten([n \in 1..Len(final_parameters) |->
                        <<"[" \o final_parameters[n][1] \o "]\n",
                          Str(final_parameters[n][2]) \o "\n">>]))

\* The arguments of a parameter-file call are a record:
\*   exists, folder      the input folder and its files (name -> document)
\*   folder_name         os.path.basename(input_dxf_folder)
\*   output_name         the file name of output_file_path
\*   part_name           <<>> for None, <<name>> otherwise
\*   machine_settings    the dict's items; settings_given is FALSE for None
\*   writable            whether open(output_file_path, 'w') succeeds
\* and its result is the file it leaves: [name, file].
\*
\* generate_auto_parameters_file(input_dxf_folder, output_file_path,
\*     layer_thickness, part_name, machine_settings)
generate_auto_parameters_file(in) ==
    LET dxf_files == ListLayerFiles(in.folder)
        number_of_layers == Len(dxf_files)
        part_name == IF in.part_name = <<>> THEN in.folder_name ELSE in.part_name[1]
        machine_settings == IF in.settings_given THEN in.machine_settings ELSE <<>>
        final_parameters ==
            FinalParameters_MP(part_name, number_of_layers, in.layer_thickness, machine_settings)
    IN  IF ~in.exists \/ dxf_files = <<>> \/ ~in.writable
        THEN [name |-> "", file |-> NoTextFile]
        ELSE [name |-> in.output_name, file |-> TextFile(ParameterText_MP(final_parameters))]

\* generate_manufacturing_parameters_file(input_dxf_folder, output_folder,
\*     part_name, layer_thickness) of modules/geometry_processing.py
generate_manufacturing_parameters_file(in) ==
    LET dxf_files == ListLayerFiles(in.folder)
        number_of_layers == Len(dxf_files)
        final_parameters == FinalParameters(in.part_name[1], number_of_layers, in.layer_thickness)
    IN  IF ~in.exists \/ dxf_files = <<>> \/ ~in.writable
        THEN [name |-> "", file |-> NoTextFile]
        ELSE [name |-> ParamName(in.part_name[1]), file |-> TextFile(ParameterText(final_parameters))]

\* "if start_stage <= k": whether stage k of a DXF pipeline is executed
RunsStage_Only(k, s) == s = k

RunsStage(k, s) == s <= k

\* the stage whose "if" follows that of stage k in the function body
AfterStage_Swapped(k) == IF k = 1 THEN 3 ELSE IF k = 3 THEN 2 ELSE 4

AfterStage(k) == k + 1

\* the statement that follows stage k - 1 of a DXF pipeline function
StagePc_NoEnd(k) == IF k = 1 THEN "stage1" ELSE IF k = 2 THEN "stage2"
                    ELSE IF k = 3 THEN "stage3" ELSE "stage4"

StagePc(k) == IF k = 1 THEN "stage1" ELSE IF k = 2 THEN "stage2"
              ELSE IF k = 3 THEN "stage3" ELSE "pipeline_end"

\* ------------------------------------------------------------------------
\* Inputs of the DXF functions
\* ------------------------------------------------------------------------
BasePts == << <<12345678, -4>>, <<-5004996, 20000006>>, <<15001, 9995004>>,
              <<0, -7654321>> >>

PtPrefixes == {SubSeq(BasePts, 1, k) : k \in 0..Min2(MaxPts, Len(BasePts))}

\* vertex lists: every vertex located, or one vertex that fails the guard
\* inserted after the first
VertexLists ==
    {[n \in 1..Len(p) |-> Vertex(p[n])] : p \in PtPrefixes}
    \cup {<<Vertex(p[1]), NoLocVertex>> \o [n \in 1..Len(Tail(p)) |-> Vertex(Tail(p)[n])] :
              p \in {q \in PtPrefixes : Len(q) \in {2, 3}}}

EntityPool ==
    {LwPolyline([n \in 1..Len(p) |-> LwPoint(p[n])], c) : p \in PtPrefixes, c \in BOOLEAN}
    \cup {Polyline(v, c) : v \in VertexLists, c \in BOOLEAN}
    \cup {Line(Vec3(BasePts[1]), Vec3(BasePts[2])), Line(Vec3(BasePts[3]), Vec3(BasePts[1]))}
    \cup {Circle(Vec3(BasePts[2]), CIRCLE_RADIUS)}

DxfInputs ==
    {DxfFile(m) : m \in SeqsUpTo(EntityPool, MaxEnt)}
    \cup {BadFile("DXFStructureError"), BadFile("Exception"), MissingFile}

GeometryPool ==
    {Geometry("contour", p) : p \in PtPrefixes}
    \cup {Geometry("hatch", SubSeq(BasePts, 1, k)) : k \in 0..Min2(MaxPts + 1, Len(BasePts))}
    \cup {Geometry("points", SubSeq(BasePts, 1, k)) : k \in 0..2}

LayerInputs == SeqsUpTo(GeometryPool, MaxGeoms)

\* ------------------------------------------------------------------------
\* State of the function-level specifications
\* ------------------------------------------------------------------------
VARIABLES dxfIn, step, segs, outDxf, outText, layerIn, paramIn, paramOut

dxfVars == <<dxfIn, step, segs, outDxf, outText>>

funcVars == <<dxfVars, layerIn, paramIn, paramOut>>

\* ------------------------------------------------------------------------
\* Inputs and state of unified_blocked.py
\* ------------------------------------------------------------------------
SCRIPT == "unified_blocked.py"

ModelNames == {"Aleta", "M2"}

PipelineArgs == {"1-3-4", "1-3-5", "2-5", "3-5"}

StageArgs == {"2", "3", "0", "4", "x", "+2"}

\* sys.argv: the script name followed by zero to four arguments
ArgvInputs ==
    {<<SCRIPT>>, <<SCRIPT, "M2">>, <<SCRIPT, "M2", "2-5">>, <<SCRIPT, "M2", "2-5", "2", "x">>,
     <<SCRIPT, "Aleta", "2-5", "1">>}
    \cup {<<SCRIPT, "Aleta", p>> : p \in PipelineArgs}
    \cup {<<SCRIPT, "Aleta", p, a>> : p \in PipelineArgs, a \in StageArgs}

\* What the output folders hold when the run starts.  The output root is
\* named after the model and the minute of the run and is made with
\* exist_ok, so it is empty unless a run of the same minute left files.
Triangle == LwPolyline([n \in 1..3 |-> LwPoint(BasePts[n])], TRUE)

FolderInputs ==
    { [bruto |-> EmptyFolder, clean |-> EmptyFolder, maquina |-> EmptyFolder],
      [bruto |-> [n \in {"0bad.DXF", "Z_prev.dxf", "plot.png"} |->
                     IF n = "Z_prev.dxf" THEN DxfFile(<<Triangle>>)
                     ELSE BadFile("DXFStructureError")],
       clean |-> [n \in {"a_bad.dxf"} |-> BadFile("DXFStructureError")],
       maquina |-> EmptyFolder],
      [bruto |-> EmptyFolder,
       clean |-> [n \in {"a_bad.dxf", "clean_old.dxf", "void.dxf"} |->
                     IF n = "a_bad.dxf" THEN BadFile("Exception")
                     ELSE IF n = "void.dxf" THEN DxfFile(<<>>)
                     ELSE DxfFile(<<Line(Vec3(BasePts[1]), Vec3(BasePts[2]))>>)],
       maquina |-> [n \in {"notes.txt"} |-> TextFile("old\n")]] }

\* The surroundings of a run: which STL folders hold <model_name>.stl, the
\* output names that cannot be written, whether extrusion yields a mesh.
EnvInputs ==
    {[stl |-> st, unwritable |-> {}, extrudes |-> TRUE] : st \in SUBSET {"Peca", "suporte"}}
    \cup {[stl |-> {"Peca", "suporte"}, unwritable |-> {}, extrudes |-> FALSE]}
    \cup {[stl |-> {"Peca", "suporte"}, unwritable |-> u, extrudes |-> TRUE] :
             u \in { {CleanName(RawName(m, 0)) : m \in ModelNames},
                     {MachineName(CleanName(RawName(m, 1))) : m \in ModelNames},
                     {ParamName(m) : m \in ModelNames} }}

\* a run: its surroundings and the folders it finds; files left by an
\* earlier run are met in surroundings where every STL exists
RunInputs ==
    {[env |-> e, folders |-> f] : e \in EnvInputs, f \in FolderInputs} \ 
    {[env |-> e, folders |-> f] :
        e \in {x \in EnvInputs : x.stl # {"Peca", "suporte"} \/ x.unwritable # {} \/ ~x.extrudes},
        f \in {x \in FolderInputs : x.bruto # EmptyFolder \/ x.clean # EmptyFolder}}

\* a part: the name given to Part() and the z extent of its bounding box
NoPart == [name |-> "", min_z |-> 0, max_z |-> 0]

\* heights of the loaded mesh, in half layers
PartHeights == {k * (LAYER_THICKNESS \div 2) : k \in 0..MaxZ}

Box(lo, hi) == [min_z |-> lo, max_z |-> hi]

\* meshSupports of generate_pyslm_supports: a list of support meshes below
\* and around the underside of the part
SupportInputs(part) ==
    {<<>>,
     <<Box(part.min_z - LAYER_THICKNESS \div 2, part.min_z),
       Box(part.min_z, part.min_z + LAYER_THICKNESS \div 2)>>}

\* What the slicing of one z position yields: layer_hatch_part.geometry for
\* the slice of the part (empty when the slice is; hatch coordinates come in
\* pairs) and (innerHatchPaths_support, boundaryPaths_support) of
\* GridBlockSupport.slice
NoSupportSlice == [inner |-> <<>>, boundary |-> <<>>]

SliceInputs(supports) ==
    {[part |-> g, support |-> NoSupportSlice] :
        g \in {<<>>,
               <<Geometry("contour", SubSeq(BasePts, 1, 3)), Geometry("hatch", SubSeq(BasePts, 1, 2))>>,
               <<Geometry("points", SubSeq(BasePts, 1, 1))>>}}
    \cup IF supports = <<>> THEN {}
         ELSE {[part |-> g,
                support |-> [inner |-> <<SubSeq(BasePts, 3, 4)>>, boundary |-> <<SubSeq(BasePts, 2, 4)>>]] :
                   g \in {<<>>, <<Geometry("contour", SubSeq(BasePts, 1, 3)),
                                  Geometry("hatch", SubSeq(BasePts, 1, 2))>>}}

VARIABLES sysargv, env, pc, model_name, pipeline_type, start_stage, exitStatus,
          calls, bruto, clean, maquina, root, part, meshSupports,
          z_positions, zi, layer_idx, hatchAngle, angles, ran, files, fi,
          meshes, log

mainVars == <<sysargv, env, model_name, pipeline_type, start_stage, exitStatus, calls>>

folderVars == <<bruto, clean, maquina, root>>

sliceVars == <<part, meshSupports, z_positions, zi, layer_idx, hatchAngle, angles>>

batchVars == <<files, fi, meshes>>

pipeVars == <<mainVars, folderVars, sliceVars, batchVars, pc, ran, log>>

vars == <<funcVars, pipeVars>>

\* no call of a parameter-file function: its arguments and its output file
NoParamIn ==
    [exists |-> FALSE, folder |-> EmptyFolder, folder_name |-> "", output_name |-> "",
     part_name |-> <<>>, layer_thickness |-> 0, machine_settings |-> <<>>,
     settings_given |-> FALSE, writable |-> FALSE]

NoParamOut == [name |-> "", file |-> NoTextFile]

ParamIdle == paramIn = NoParamIn /\ paramOut = NoParamOut

\* the program is not run in the function-level specifications
PipeIdle ==
    /\ sysargv = <<>> /\ env = [stl |-> {}, unwritable |-> {}, extrudes |-> FALSE]
    /\ pc = "idle" /\ model_name = "" /\ pipeline_type = "" /\ start_stage = 0
    /\ exitStatus = -1 /\ calls = <<>>
    /\ bruto = EmptyFolder /\ clean = EmptyFolder /\ maquina = EmptyFolder
    /\ root = EmptyFolder
    /\ part = NoPart /\ meshSupports = <<>> /\ z_positions = <<>> /\ zi = 0
    /\ layer_idx = 0 /\ hatchAngle = 0 /\ angles = <<>>
    /\ ran = <<>> /\ files = <<>> /\ fi = 0 /\ meshes = <<>> /\ log = <<>>

InitDxf ==
    /\ PipeIdle
    /\ ParamIdle
    /\ layerIn = <<>>
    /\ dxfIn \in DxfInputs
    /\ step = "init"
    /\ segs = <<>>
    /\ outDxf = MissingFile
    /\ outText = NoTextFile

\* line_segments = get_line_segments_from_dxf(path)   (modules/geometry_processing.py)
GetLineSegmentsFromDxf ==
    /\ step = "init"
    /\ step' = "get"
    /\ segs' = get_line_segments_from_dxf(dxfIn)
    /\ UNCHANGED <<dxfIn, outDxf, outText, layerIn, paramIn, paramOut, pipeVars>>

\* the same call in support_DXF_to_clean_DXF.py
GetLineSegmentsFromDxf_CL ==
    /\ step = "init"
    /\ step' = "getCL"
    /\ segs' = get_line_segments_from_dxf_CL(dxfIn)
    /\ UNCHANGED <<dxfIn, outDxf, outText, layerIn, paramIn, paramOut, pipeVars>>

\* create_simplified_dxf_for_laser(line_segments, path) on the segments of
\* the input; doc.saveas() may raise, which is caught and leaves no file
CreateSimplifiedDxfForLaser ==
    /\ step = "init"
    /\ step' = "simplify"
    /\ segs' = get_line_segments_from_dxf(dxfIn)
    /\ \E saveOk \in BOOLEAN :
          outDxf' = IF saveOk THEN DxfFile(create_simplified_dxf_for_laser(segs'))
                    ELSE MissingFile
    /\ UNCHANGED <<dxfIn, outText, layerIn, paramIn, paramOut, pipeVars>>

CreateSimplifiedDxfForLaser_CL ==
    /\ step = "init"
    /\ step' = "simplifyCL"
    /\ segs' = get_line_segments_from_dxf_CL(dxfIn)
    /\ \E saveOk \in BOOLEAN :
          outDxf' = IF saveOk THEN DxfFile(create_simplified_dxf_for_laser_CL(segs'))
                    ELSE MissingFile
    /\ UNCHANGED <<dxfIn, outText, layerIn, paramIn, paramOut, pipeVars>>

\* convert_dxf_to_lines_only_machine_format(input, output): nothing is
\* written when the input is missing or unreadable; an exception while
\* writing is caught
ConvertDxfToLinesOnlyMachineFormat ==
    /\ step = "init"
    /\ step' = "mf"
    /\ IF ~dxfIn.exists \/ dxfIn.err # ""
       THEN UNCHANGED <<segs, outText>>
       ELSE /\ segs' = AllLineSegments_MF(dxfIn.msp)
            /\ \E writeOk \in BOOLEAN :
                  outText' = IF writeOk THEN TextFile(MachineText_MF(segs'))
                             ELSE NoTextFile
    /\ UNCHANGED <<dxfIn, outDxf, layerIn, paramIn, paramOut, pipeVars>>

\* convert_dxf_to_lines_only(input, output, extension)
ConvertDxfToLinesOnly ==
    /\ step = "init"
    /\ step' = "lo"
    /\ IF ~dxfIn.exists \/ dxfIn.err # ""
       THEN UNCHANGED <<segs, outText>>
       ELSE /\ segs' = AllLineSegments_LO(dxfIn.msp)
            /\ \E writeOk \in BOOLEAN :
                  outText' = IF writeOk THEN TextFile(MachineText_LO(segs'))
                             ELSE NoTextFile
    /\ UNCHANGED <<dxfIn, outDxf, layerIn, paramIn, paramOut, pipeVars>>

NextDxf ==
    \/ GetLineSegmentsFromDxf
    \/ GetLineSegmentsFromDxf_CL
    \/ CreateSimplifiedDxfForLaser
    \/ CreateSimplifiedDxfForLaser_CL
    \/ ConvertDxfToLinesOnlyMachineFormat
    \/ ConvertDxfToLinesOnly

SpecDxf == InitDxf /\ [][NextDxf]_vars

\* The specification of the layer export: a layer, then one export of it.
InitLayer ==
    /\ PipeIdle
    /\ ParamIdle
    /\ layerIn \in LayerInputs
    /\ dxfIn = MissingFile
    /\ step = "init"
    /\ segs = <<>>
    /\ outDxf = MissingFile
    /\ outText = NoTextFile

\* export_layer_to_dxf(current_layer, dxf_name)   (modules/geometry_processing.py)
ExportLayerToDxf ==
    /\ step = "init"
    /\ step' = "export"
    /\ outDxf' = export_layer_to_dxf(layerIn)
    /\ UNCHANGED <<dxfIn, segs, outText, layerIn, paramIn, paramOut, pipeVars>>

\* export_layer_to_dxf(layer, dxf_name)   (STL_solid_support_to_DXF.py)
ExportLayerToDxf_SS ==
    /\ step = "init"
    /\ step' = "exportSS"
    /\ outDxf' = export_layer_to_dxf_SS(layerIn)
    /\ UNCHANGED <<dxfIn, segs, outText, layerIn, paramIn, paramOut, pipeVars>>

NextLayer == ExportLayerToDxf \/ ExportLayerToDxf_SS

SpecLayer == InitLayer /\ [][NextLayer]_vars

\* ------------------------------------------------------------------------
\* The parameter-file functions on their own
\* ------------------------------------------------------------------------
\* a layer whose outline reaches beyond 7.9 mm
WideLayer == DxfFile(<<Line(<<100000000, -5000000, 0>>, <<-120000000, 90000000, 0>>)>>)

\* a layer whose second polyline has a vertex without a location
BrokenLayer ==
    DxfFile(<<Polyline(<<Vertex(BasePts[1]), Vertex(BasePts[2])>>, FALSE),
              Polyline(<<Vertex(BasePts[3]), NoLocVertex>>, FALSE),
              Triangle>>)

\* a file in the machine's text format, which ezdxf cannot read
MachineFile == BadFile("DXFStructureError")

\* the folder stage 3 leaves after n layers
MachineFolder(n) ==
    [f \in {MachineName(CleanName(RawName("Aleta", k))) : k \in 0..(n - 1)} |-> MachineFile]

ParamFolders ==
    {[exists |-> FALSE, folder |-> EmptyFolder],
     [exists |-> TRUE, folder |-> EmptyFolder],
     [exists |-> TRUE, folder |-> [f \in {"plot.png", "dxf"} |-> MachineFile]],
     [exists |-> TRUE,
      folder |-> [f \in {"A.DXF", "b.Txt", "c.dxf", "txt.md"} |->
                    IF f = "A.DXF" THEN WideLayer
                    ELSE IF f = "c.dxf" THEN BrokenLayer
                    ELSE MachineFile]],
     [exists |-> TRUE, folder |-> [f \in {"small.dxf"} |-> DxfFile(<<Triangle>>)]]}
    \cup {[exists |-> TRUE, folder |-> MachineFolder(n)] : n \in 1..(MaxZ + 1)}

\* machine settings a caller may give: overrides of defaults, of derived
\* values, and a key the defaults do not have
SettingsPool ==
    {<<"HATCH POWER 1", IntVal(45)>>, <<"CONTOUR SPEED", IntVal(900)>>,
     <<"NUMBER OF LAYERS", IntVal(7)>>, <<"LASER MODE", StrVal("PULSED")>>}

\* the items of a dict: no key twice
SettingsInputs ==
    {m \in SeqsUpTo(SettingsPool, MaxSettings) :
        \A i, j \in 1..Len(m) : i # j => m[i][1] # m[j][1]}

ParamInputs ==
    {[exists |-> d.exists, folder |-> d.folder, folder_name |-> "txt_maquina",
      output_name |-> "params.txt", part_name |-> pn, layer_thickness |-> lt,
      machine_settings |-> ms, settings_given |-> TRUE, writable |-> w] :
        d \in ParamFolders, pn \in {<<>>, <<"Aleta">>}, lt \in {LAYER_THICKNESS},
        ms \in SettingsInputs, w \in BOOLEAN}
    \cup
    {[exists |-> d.exists, folder |-> d.folder, folder_name |-> "txt_maquina",
      output_name |-> "params.txt", part_name |-> pn, layer_thickness |-> lt,
      machine_settings |-> <<>>, settings_given |-> FALSE, writable |-> TRUE] :
        d \in ParamFolders, pn \in {<<>>, <<"M2">>}, lt \in {LAYER_THICKNESS, 500000}}

InitParams ==
    /\ PipeIdle
    /\ dxfIn = MissingFile /\ segs = <<>> /\ outDxf = MissingFile
    /\ outText = NoTextFile /\ layerIn = <<>>
    /\ step = "init"
    /\ paramIn \in ParamInputs
    /\ paramOut = NoParamOut

\* one call of generate_auto_parameters_file (manufacture_parameters.py)
GenerateAutoParametersFile ==
    /\ step = "init"
    /\ step' = "auto"
    /\ paramOut' = generate_auto_parameters_file(paramIn)
    /\ UNCHANGED <<dxfIn, segs, outDxf, outText, layerIn, paramIn, pipeVars>>

\* one call of generate_manufacturing_parameters_file, which takes a part
\* name and no machine settings
GenerateParametersFile ==
    /\ step = "init"
    /\ paramIn.part_name # <<>> /\ ~paramIn.settings_given
    /\ step' = "params"
    /\ paramOut' = generate_manufacturing_parameters_file(paramIn)
    /\ UNCHANGED <<dxfIn, segs, outDxf, outText, layerIn, paramIn, pipeVars>>

NextParams == GenerateAutoParametersFile \/ GenerateParametersFile

SpecParams == InitParams /\ [][NextParams]_vars

\* ------------------------------------------------------------------------
\* unified_blocked.py: the command line and the three pipelines
\* ------------------------------------------------------------------------
Event(ev, name) == [ev |-> ev, name |-> name]

Logged(ev) == \E i \in 1..Len(log) : log[i].ev = ev

\* a call of a pipeline function: its model_name argument and, where one is
\* passed, its start_stage argument
Call(fn, name, stage) == [fn |-> fn, model_name |-> name, start_stage |-> stage]

DxfPipelines == {"1-3-5", "2-5"}

\* where a DXF pipeline goes on when the STL is not found: the "return" of
\* the except branch ends the function
MissingStlReturn_FallThrough == "stage2"

MissingStlReturn == "finished"

\* Part('Peca') dropped to 5 mm, Part(model_name) dropped to the platform
LoadedParts(name, platform) ==
    {[name |-> name, min_z |-> platform, max_z |-> platform + h] : h \in PartHeights}

Init ==
    /\ dxfIn = MissingFile /\ step = "idle" /\ segs = <<>>
    /\ outDxf = MissingFile /\ outText = NoTextFile /\ layerIn = <<>>
    /\ ParamIdle
    /\ sysargv \in ArgvInputs
    /\ \E r \in RunInputs :
          /\ env = r.env
          /\ bruto = r.folders.bruto /\ clean = r.folders.clean /\ maquina = r.folders.maquina
    /\ root = EmptyFolder
    /\ pc = "main"
    /\ model_name = "" /\ pipeline_type = "" /\ start_stage = 0
    /\ exitStatus = -1 /\ calls = <<>>
    /\ part = NoPart /\ meshSupports = <<>> /\ z_positions = <<>> /\ zi = 0
    /\ layer_idx = 0 /\ hatchAngle = 0 /\ angles = <<>>
    /\ ran = <<>> /\ files = <<>> /\ fi = 0 /\ meshes = <<>> /\ log = <<>>

\* __main__ up to the creation of the output root (lines 275-302)
ParseArgs ==
    /\ pc = "main"
    /\ IF Len(sysargv) < 3 \/ Len(sysargv) > 4
       THEN /\ exitStatus' = 1 /\ pc' = "exit"
            /\ UNCHANGED <<model_name, pipeline_type, start_stage>>
       ELSE /\ model_name' = sysargv[2]
            /\ pipeline_type' = sysargv[3]
            /\ IF Len(sysargv) = 4
               THEN IF IntRaises(sysargv[4])
                    THEN start_stage' = 1 /\ exitStatus' = 1 /\ pc' = "exit"
                    ELSE /\ start_stage' = IntValue(sysargv[4])
                         /\ IF start_stage' \notin {1, 2, 3}
                            THEN exitStatus' = 1 /\ pc' = "exit"
                            ELSE pc' = "dispatch" /\ UNCHANGED exitStatus
               ELSE start_stage' = 1 /\ pc' = "dispatch" /\ UNCHANGED exitStatus
    /\ UNCHANGED <<funcVars, sysargv, env, calls, folderVars, sliceVars, batchVars, ran, log>>

\* the if/elif chain on pipeline_type (lines 304-312)
Dispatch_Default(type) ==
    IF type = "1-3-4" THEN <<Call("run_original_stl_to_supported_stl", model_name, <<>>)>>
    ELSE IF type = "1-3-5" THEN <<Call("run_original_stl_to_dxf_pipeline", model_name, <<start_stage>>)>>
    ELSE <<Call("run_supported_stl_to_dxf_pipeline", model_name, <<start_stage>>)>>

Dispatched(type) ==
    IF type = "1-3-4" THEN <<Call("run_original_stl_to_supported_stl", model_name, <<>>)>>
    ELSE IF type = "1-3-5" THEN <<Call("run_original_stl_to_dxf_pipeline", model_name, <<start_stage>>)>>
    ELSE IF type = "2-5" THEN <<Call("run_supported_stl_to_dxf_pipeline", model_name, <<start_stage>>)>>
    ELSE <<>>

Dispatch ==
    /\ pc = "dispatch"
    /\ calls' = calls \o Dispatched(pipeline_type)
    /\ IF calls' = calls
       THEN exitStatus' = 1 /\ pc' = "exit"
       ELSE /\ pc' = IF pipeline_type = "1-3-4" THEN "run_134" ELSE "run_dxf"
            /\ UNCHANGED exitStatus
    /\ UNCHANGED <<funcVars, sysargv, env, model_name, pipeline_type, start_stage,
                   folderVars, sliceVars, batchVars, ran, log>>

\* run_original_stl_to_supported_stl up to the supports (lines 141-148)
LoadFor134 ==
    /\ pc = "run_134"
    /\ IF "Peca" \in env.stl
       THEN /\ part' \in LoadedParts("Peca", PLATFORM_Z_ORIGINAL)
            /\ log' = Append(log, Event("load_mesh", model_name \o ".stl"))
            /\ pc' = "supports"
       ELSE /\ log' = Append(log, Event("stl_not_found", model_name \o ".stl"))
            /\ pc' = "finished"
            /\ UNCHANGED part
    /\ UNCHANGED <<funcVars, mainVars, folderVars, meshSupports, z_positions, zi,
                   layer_idx, hatchAngle, angles, batchVars, ran>>

\* generate_pyslm_supports(myPart), called by pipelines 1-3-4 and 1-3-5
GeneratePyslmSupports ==
    /\ pc = "supports"
    /\ meshSupports' \in SupportInputs(part)
    /\ log' = Append(log, Event("supports", part.name))
    /\ pc' = IF pipeline_type = "1-3-4" THEN "export_stl" ELSE "slice"
    /\ UNCHANGED <<funcVars, mainVars, folderVars, part, z_positions, zi,
                   layer_idx, hatchAngle, angles, batchVars, ran>>

\* export_supported_stl and the end of pipeline 1-3-4 (lines 109-133, 154-156)
ExportSupportedStl ==
    /\ pc = "export_stl"
    /\ LET glb == model_name \o "_overhangSupport.glb"
           stl == model_name \o "_combined_supported.stl"
       IN  IF stl \in env.unwritable
           THEN /\ root' = Put(root, glb, TextFile("glb"))
                /\ log' = Append(log, Event("write_glb", glb))
           ELSE /\ root' = Put(Put(root, glb, TextFile("glb")), stl, TextFile("stl"))
                /\ log' = log \o <<Event("write_glb", glb), Event("write_supported_stl", stl)>>
    /\ pc' = "finished"
    /\ UNCHANGED <<funcVars, mainVars, bruto, clean, maquina, sliceVars, batchVars, ran>>

\* the last print of __main__ (line 314); the interpreter then exits with 0
Finish ==
    /\ pc = "finished"
    /\ exitStatus' = 0
    /\ pc' = "exit"
    /\ UNCHANGED <<funcVars, sysargv, env, model_name, pipeline_type, start_stage,
                   calls, folderVars, sliceVars, batchVars, ran, log>>

\* run_*_to_dxf_pipeline: the folders are made (lines 164-172, 223-231)
RunDxfPipeline ==
    /\ pc = "run_dxf"
    /\ pc' = StagePc(1)
    /\ UNCHANGED <<funcVars, mainVars, folderVars, sliceVars, batchVars, ran, log>>

\* "if start_stage <= 1": the STL is loaded, or the function returns when it
\* does not exist (lines 175-190, 234-246)
Stage1 ==
    /\ pc = "stage1"
    /\ IF RunsStage(1, start_stage)
       THEN /\ ran' = Append(ran, 1)
            /\ IF (IF pipeline_type = "1-3-5" THEN "Peca" ELSE "suporte") \in env.stl
               THEN /\ part' \in IF pipeline_type = "1-3-5"
                                 THEN LoadedParts("Peca", PLATFORM_Z_ORIGINAL)
                                 ELSE LoadedParts(model_name, PLATFORM_Z_SUPPORTED)
                    /\ log' = Append(log, Event("load_mesh", model_name \o ".stl"))
                    /\ pc' = IF pipeline_type = "1-3-5" THEN "supports" ELSE "slice"
               ELSE /\ log' = Append(log, Event("stl_not_found", model_name \o ".stl"))
                    /\ pc' = MissingStlReturn
                    /\ UNCHANGED part
       ELSE /\ pc' = StagePc(AfterStage(1))
            /\ UNCHANGED <<ran, part, log>>
    /\ UNCHANGED <<funcVars, mainVars, folderVars, meshSupports, z_positions, zi,
                   layer_idx, hatchAngle, angles, batchVars>>

\* slice_and_export_raw_dxfs up to its loop (lines 259-295)
SliceSetup ==
    /\ pc = "slice"
    /\ LET min_z_support == IF meshSupports = <<>> THEN part.min_z
                            ELSE CHOOSE m \in {meshSupports[i].min_z : i \in 1..Len(meshSupports)} :
                                     \A i \in 1..Len(meshSupports) : m <= meshSupports[i].min_z
           max_z_support == IF meshSupports = <<>> THEN part.max_z
                            ELSE CHOOSE m \in {meshSupports[i].max_z : i \in 1..Len(meshSupports)} :
                                     \A i \in 1..Len(meshSupports) : m >= meshSupports[i].max_z
           min_z_overall == Min2(part.min_z, min_z_support)
           max_z_overall == Max2(part.max_z, max_z_support)
       IN  IF max_z_overall <= min_z_overall
           THEN /\ pc' = StagePc(AfterStage(1))
                /\ UNCHANGED <<z_positions, zi>>
           ELSE /\ z_positions' = ZPositions(min_z_overall, max_z_overall)
                /\ zi' = 1
                /\ pc' = "slice_loop"
    /\ hatchAngle' = HATCH_ANGLE_INITIAL
    /\ layer_idx' = 0
    /\ angles' = <<>>
    /\ UNCHANGED <<funcVars, mainVars, folderVars, part, meshSupports, batchVars, ran, log>>

\* the geometry list of current_layer: the hatched slice of the part, then
\* the support hatches, then the support boundaries (lines 302-328)
CurrentLayer(part_geometry, sup) ==
    part_geometry
    \o [n \in 1..Len(sup.inner) |-> Geometry("hatch", sup.inner[n])]
    \o [n \in 1..Len(sup.boundary) |-> Geometry("contour", sup.boundary[n])]

\* one iteration of the loop over z_positions (lines 297-334)
SliceLayer ==
    /\ pc = "slice_loop"
    /\ zi <= Len(z_positions)
    /\ hatchAngle' = hatchAngle + HATCH_ANGLE_INCREMENT
    /\ angles' = Append(angles, hatchAngle')
    /\ \E slice \in SliceInputs(meshSupports) :
          LET current_layer == CurrentLayer(slice.part, slice.support)
              dxf_name == RawName(model_name, layer_idx)
          IN  IF current_layer # <<>>
              THEN /\ bruto' = Put(bruto, dxf_name, export_layer_to_dxf(current_layer))
                   /\ log' = Append(log, Event("write_raw", dxf_name))
              ELSE UNCHANGED <<bruto, log>>
    /\ layer_idx' = layer_idx + 1
    /\ zi' = zi + 1
    /\ UNCHANGED <<funcVars, mainVars, clean, maquina, root, part, meshSupports,
                   z_positions, batchVars, pc, ran>>

\* the end of slice_and_export_raw_dxfs (lines 336-341)
SliceEnd ==
    /\ pc = "slice_loop"
    /\ zi > Len(z_positions)
    /\ pc' = StagePc(AfterStage(1))
    /\ UNCHANGED <<funcVars, mainVars, folderVars, sliceVars, batchVars, ran, log>>

\* "if start_stage <= 2" and clean_raw_dxfs_and_generate_stl up to its loop
Stage2 ==
    /\ pc = "stage2"
    /\ IF RunsStage(2, start_stage)
       THEN /\ ran' = Append(ran, 2)
            /\ files' = ListDxf(bruto)
            /\ meshes' = <<>>
            /\ fi' = 1
            /\ pc' = IF files' = <<>> THEN StagePc(AfterStage(2)) ELSE "clean_loop"
       ELSE /\ pc' = StagePc(AfterStage(2))
            /\ UNCHANGED <<ran, batchVars>>
    /\ UNCHANGED <<funcVars, mainVars, folderVars, sliceVars, log>>

\* one iteration of the loop over dxf_files_bruto (lines 358-390)
CleanFile ==
    /\ pc = "clean_loop"
    /\ fi <= Len(files)
    /\ \E dxf_file \in {files[fi]} :
       \E line_segments_2d \in {get_line_segments_from_dxf(bruto[dxf_file])},
          read \in {Event(IF Readable(bruto[dxf_file]) THEN "read_raw" ELSE "unreadable_raw", dxf_file)} :
           IF line_segments_2d = <<>>
           THEN /\ log' = log \o <<read, Event("skip_raw", dxf_file)>>
                /\ fi' = SkipTo(fi, Len(files))
                /\ UNCHANGED <<clean, meshes>>
           ELSE /\ IF CleanName(dxf_file) \in env.unwritable
                   THEN /\ log' = Append(log, read)
                        /\ UNCHANGED clean
                   ELSE /\ clean' = Put(clean, CleanName(dxf_file),
                                        DxfFile(create_simplified_dxf_for_laser(line_segments_2d)))
                        /\ log' = log \o <<read, Event("write_clean", CleanName(dxf_file))>>
                /\ meshes' = IF env.extrudes THEN Append(meshes, dxf_file) ELSE meshes
                /\ fi' = fi + 1
    /\ UNCHANGED <<funcVars, mainVars, bruto, maquina, root, sliceVars, files, pc, ran>>

\* the end of clean_raw_dxfs_and_generate_stl (lines 392-399)
CleanEnd ==
    /\ pc = "clean_loop"
    /\ fi > Len(files)
    /\ LET stl == model_name \o "_combined_cleaned.stl"
       IN  IF meshes = <<>>
           THEN UNCHANGED <<root, log>>
           ELSE /\ root' = Put(root, stl, TextFile("stl"))
                /\ log' = Append(log, Event("write_stl", stl))
    /\ pc' = StagePc(AfterStage(2))
    /\ UNCHANGED <<funcVars, mainVars, bruto, clean, maquina, sliceVars, batchVars, ran>>

\* "if start_stage <= 3" and convert_clean_dxfs_to_machine_format up to its
\* loop (lines 203-206, 405-412)
Stage3 ==
    /\ pc = "stage3"
    /\ IF RunsStage(3, start_stage)
       THEN /\ ran' = Append(ran, 3)
            /\ files' = ListDxf(clean)
            /\ fi' = 1
            /\ pc' = IF files' = <<>> THEN "params" ELSE "machine_loop"
            /\ UNCHANGED meshes
       ELSE /\ pc' = StagePc(AfterStage(3))
            /\ UNCHANGED <<ran, batchVars>>
    /\ UNCHANGED <<funcVars, mainVars, folderVars, sliceVars, log>>

\* one iteration of the loop over dxf_files_clean (lines 413-417) with its
\* call of convert_dxf_to_lines_only_machine_format
ConvertFile ==
    /\ pc = "machine_loop"
    /\ fi <= Len(files)
    /\ \E filename \in {files[fi]} :
       \E input \in {clean[filename]}, output \in {MachineName(filename)} :
          IF ~input.exists \/ input.err # ""
          THEN /\ log' = log \o <<Event("unreadable_clean", filename), Event("skip_clean", filename)>>
               /\ fi' = SkipTo(fi, Len(files))
               /\ UNCHANGED maquina
          ELSE /\ IF output \in env.unwritable
                  THEN /\ log' = Append(log, Event("read_clean", filename))
                       /\ UNCHANGED maquina
                  ELSE \E all_line_segments \in {AllLineSegments_MF(input.msp)} :
                          /\ maquina' = Put(maquina, output, TextFile(MachineText_MF(all_line_segments)))
                          /\ log' = log \o <<Event("read_clean", filename), Event("write_machine", output)>>
               /\ fi' = fi + 1
    /\ UNCHANGED <<funcVars, mainVars, bruto, clean, root, sliceVars, files, meshes, pc, ran>>

\* the end of convert_clean_dxfs_to_machine_format (line 418)
ConvertEnd ==
    /\ pc = "machine_loop"
    /\ fi > Len(files)
    /\ pc' = "params"
    /\ UNCHANGED <<funcVars, mainVars, folderVars, sliceVars, batchVars, ran, log>>

\* generate_manufacturing_parameters_file(txt_maquina, root, model_name,
\* LAYER_THICKNESS), the last call of stage 3 (lines 189-251)
GenerateManufacturingParametersFile ==
    /\ pc = "params"
    /\ \E dxf_files \in {ListLayerFiles(maquina)}, name \in {ParamName(model_name)} :
          IF dxf_files = <<>> \/ name \in env.unwritable
          THEN /\ log' = Append(log, Event("generate_params", name))
               /\ UNCHANGED root
          ELSE \E final_parameters \in {FinalParameters(model_name, Len(dxf_files), LAYER_THICKNESS)} :
                  /\ root' = Put(root, name, TextFile(ParameterText(final_parameters)))
                  /\ log' = log \o <<Event("generate_params", name), Event("write_params", name)>>
    /\ pc' = StagePc(AfterStage(3))
    /\ UNCHANGED <<funcVars, mainVars, bruto, clean, maquina, sliceVars, batchVars, ran>>

\* the last print of a DXF pipeline function (lines 215, 270)
PipelineEnd ==
    /\ pc = "pipeline_end"
    /\ pc' = "finished"
    /\ UNCHANGED <<funcVars, mainVars, folderVars, sliceVars, batchVars, ran, log>>

Next ==
    \/ ParseArgs
    \/ Dispatch
    \/ LoadFor134
    \/ GeneratePyslmSupports
    \/ ExportSupportedStl
    \/ RunDxfPipeline
    \/ Stage1
    \/ SliceSetup
    \/ SliceLayer
    \/ SliceEnd
    \/ Stage2
    \/ CleanFile
    \/ CleanEnd
    \/ Stage3
    \/ ConvertFile
    \/ ConvertEnd
    \/ GenerateManufacturingParametersFile
    \/ PipelineEnd
    \/ Finish

Spec == Init /\ [][Next]_vars

\* The script is one thread of one process: the interpreter executes the
\* next statement whenever there is one, and every library call returns.
SpecLive == Init /\ [][Next]_vars /\ WF_vars(Next)

\* ------------------------------------------------------------------------
\* Properties of the DXF functions
\* ------------------------------------------------------------------------
\* The points of a polyline: the (x, y) of the points of an LWPOLYLINE, of
\* the located vertices of a POLYLINE.
PolyPoints(e) ==
    IF e.kind = "LWPOLYLINE" THEN [i \in 1..Len(e.points) |-> <<e.points[i][1], e.points[i][2]>>]
    ELSE LET located == SelectSeq(e.vertices, LAMBDA v : v.hasloc)
         IN  [i \in 1..Len(located) |-> <<located[i].loc[1], located[i].loc[2]>>]

\* The number of segments an entity is to yield.
Yield(e) ==
    IF e.kind = "LINE" THEN 1
    ELSE IF e.kind \in {"LWPOLYLINE", "POLYLINE"}
    THEN LET n == Len(PolyPoints(e))
         IN  IF n < 2 THEN 0 ELSE (n - 1) + (IF e.closed /\ n > 2 THEN 1 ELSE 0)
    ELSE 0

OfKind(msp, kind) == SelectSeq(msp, LAMBDA e : e.kind = kind)

ByKind(msp) == OfKind(msp, "LWPOLYLINE") \o OfKind(msp, "POLYLINE") \o OfKind(msp, "LINE")

YieldBefore(K, j) == SumSeq([k \in 1..(j - 1) |-> Yield(K[k])])

Flattened(msp, result) ==
    LET K == ByKind(msp)
    IN  /\ Len(result) = YieldBefore(K, Len(K) + 1)
        /\ \A j \in 1..Len(K) :
              LET e == K[j]
                  off == YieldBefore(K, j)
              IN  IF e.kind = "LINE"
                  THEN result[off + 1] = << <<e.start[1], e.start[2]>>, <<e.end[1], e.end[2]>> >>
                  ELSE LET P == PolyPoints(e)
                           n == Len(P)
                       IN  n >= 2 =>
                             /\ \A i \in 1..(n - 1) : result[off + i] = <<P[i], P[i + 1]>>
                             /\ (e.closed /\ n > 2) => result[off + n] = <<P[n], P[1]>>
        /\ \A i \in 1..Len(result) :
              /\ Len(result[i]) = 2
              /\ Len(result[i][1]) = 2
              /\ Len(result[i][2]) = 2

\* C3: get_line_segments_from_dxf (both copies) returns, for a readable
\* document, the segments of its LWPOLYLINEs, then of its POLYLINEs, then of
\* its LINEs: n-1 consecutive segments for a polyline of n >= 2 points, one
\* closing segment last-to-first when it is closed and n > 2, one segment
\* per LINE, nothing for shorter polylines and other entities; every segment
\* is a pair of two-coordinate points.
C3_Flatten ==
    (step \in {"get", "getCL"} /\ Readable(dxfIn)) => Flattened(dxfIn.msp, segs)

C3_Witness ==
    /\ step = "get"
    /\ Readable(dxfIn)
    /\ Len(dxfIn.msp) = 2
    /\ dxfIn.msp[1].kind = "LINE"
    /\ dxfIn.msp[2].kind = "LWPOLYLINE"
    /\ dxfIn.msp[2].closed
    /\ Len(dxfIn.msp[2].points) = 3
    /\ Len(segs) = 4

\* C4 (as claimed): for every readable document the list built inside
\* convert_dxf_to_lines_only_machine_format, and the list built inside
\* convert_dxf_to_lines_only, equal the list get_line_segments_from_dxf
\* returns.
C4_SameSegments ==
    (step \in {"mf", "lo"} /\ Readable(dxfIn)) => segs = get_line_segments_from_dxf(dxfIn)

\* str is the decimal text of c with exactly three decimals: an optional
\* '-', digits, '.', three digits, within half a thousandth of c.
ThreeDecimals(str, c) ==
    LET neg == Len(str) > 0 /\ SubSeq(str, 1, 1) = "-"
        body == IF neg THEN SubSeq(str, 2, Len(str)) ELSE str
        n == Len(body)
    IN  /\ n >= 5
        /\ SubSeq(body, n - 3, n - 3) = "."
        /\ \A i \in (1..n) \ {n - 3} : IsDigit(SubSeq(body, i, i))
        /\ neg = (c < 0)
        /\ LET thousandths == ParseNat(SubSeq(body, 1, n - 4) \o SubSeq(body, n - 2, n), 0)
           IN  Abs(thousandths * 10000 - Abs(c)) <= 5000

MachineTemplate(L, list) ==
    LET n == Len(list)
    IN  /\ Len(L) = 8 + 13 * n
        /\ SubSeq(L, 1, 4) = <<"0", "SECTION", "2", "ENTITIES">>
        /\ \A k \in 1..n :
              LET b == 4 + 13 * (k - 1)
              IN  /\ SubSeq(L, b + 1, b + 5) = <<"0", "LINE", "8", "0", "10">>
                  /\ ThreeDecimals(L[b + 6], list[k][1][1])
                  /\ L[b + 7] = "20"
                  /\ ThreeDecimals(L[b + 8], list[k][1][2])
                  /\ L[b + 9] = "11"
                  /\ ThreeDecimals(L[b + 10], list[k][2][1])
                  /\ L[b + 11] = "21"
                  /\ ThreeDecimals(L[b + 12], list[k][2][2])
                  /\ L[b + 13] = "0"
        /\ SubSeq(L, 5 + 13 * n, 8 + 13 * n) = <<"0", "ENDSEC", "0", "EOF">>

\* C5: the machine file written for a list of n segments is the 4 header
\* lines, 13 lines per segment in list order with the coordinates in three
\* decimals, and the 4 footer lines, 8 + 13 n lines in all; the writer of
\* modules/geometry_processing.py and the writer of
\* support_DXF_to_machine_TXT_or_DXF.py give the same text for the same list.
C5_MachineTemplate ==
    (step \in {"mf", "lo"} /\ outText.written) =>
        /\ MachineTemplate(Lines(outText.text), segs)
        /\ outText.text = MachineText_MF(segs)
        /\ outText.text = MachineText_LO(segs)

C5_Witness ==
    /\ step = "mf"
    /\ outText.written
    /\ Len(segs) = 3
    /\ Len(Lines(outText.text)) = 47
    /\ \E k \in 1..3 : segs[k][1][2] = -4 /\ Lines(outText.text)[4 + 13 * (k - 1) + 8] = "-0.000"

\* C6: the document create_simplified_dxf_for_laser saves holds exactly one
\* LINE per input segment, in input order, from the segment's first point to
\* its second, each coordinate rounded to 6 decimals, and no other entity;
\* for an empty list it has no entities.
RoundedTo6(r, c) == r % 10 = 0 /\ Abs(r - c) <= 5

C6_OnlyLines ==
    (step \in {"simplify", "simplifyCL"} /\ outDxf.exists) =>
        /\ outDxf.err = ""
        /\ Len(outDxf.msp) = Len(segs)
        /\ \A i \in 1..Len(segs) :
              LET e == outDxf.msp[i]
              IN  /\ e.kind = "LINE"
                  /\ RoundedTo6(e.start[1], segs[i][1][1])
                  /\ RoundedTo6(e.start[2], segs[i][1][2])
                  /\ RoundedTo6(e.end[1], segs[i][2][1])
                  /\ RoundedTo6(e.end[2], segs[i][2][2])

C6_Witness ==
    /\ step = "simplify"
    /\ outDxf.exists
    /\ Len(segs) >= 2
    /\ Len(outDxf.msp) = Len(segs)
    /\ outDxf.msp[1].start[1] # segs[1][1][1]

\* C7: the raw DXF export_layer_to_dxf saves for a layer holds one closed
\* LWPOLYLINE per contour geometry with that geometry's points in order, one
\* LINE from coords[2i] to coords[2i+1] per pair of every hatch geometry (m
\* LINEs for 2m coordinates), one CIRCLE of radius 0.02 per coordinate of
\* every points geometry, and nothing else.
OfType(layer, type) == SelectSeq(layer, LAMBDA g : g.type = type)

CoordsBefore(G, j, per) == SumSeq([k \in 1..(j - 1) |-> Len(G[k].coords) \div per])

C7_RawDxf ==
    (step \in {"export", "exportSS"} /\ outDxf.exists) =>
        LET C == OfType(layerIn, "contour")
            H == OfType(layerIn, "hatch")
            P == OfType(layerIn, "points")
            nC == Len(C)
            nL == CoordsBefore(H, Len(H) + 1, 2)
            nP == CoordsBefore(P, Len(P) + 1, 1)
            msp == outDxf.msp
        IN  /\ outDxf.err = ""
            /\ Len(msp) = nC + nL + nP
            /\ \A j \in 1..nC :
                  /\ msp[j].kind = "LWPOLYLINE"
                  /\ msp[j].closed
                  /\ Len(msp[j].points) = Len(C[j].coords)
                  /\ \A i \in 1..Len(C[j].coords) :
                        <<msp[j].points[i][1], msp[j].points[i][2]>> = C[j].coords[i]
            /\ \A j \in 1..Len(H) : \A i \in 0..((Len(H[j].coords) \div 2) - 1) :
                  LET e == msp[nC + CoordsBefore(H, j, 2) + i + 1]
                  IN  /\ e.kind = "LINE"
                      /\ <<e.start[1], e.start[2]>> = H[j].coords[2 * i + 1]
                      /\ <<e.end[1], e.end[2]>> = H[j].coords[2 * i + 2]
            /\ \A j \in 1..Len(P) : \A i \in 1..Len(P[j].coords) :
                  LET e == msp[nC + nL + CoordsBefore(P, j, 1) + i]
                  IN  /\ e.kind = "CIRCLE"
                      /\ e.radius = 200000
                      /\ <<e.center[1], e.center[2]>> = P[j].coords[i]

C7_Witness ==
    /\ step = "export"
    /\ outDxf.exists
    /\ Len(layerIn) = 2
    /\ layerIn[1].type = "hatch"
    /\ Len(layerIn[1].coords) = 4
    /\ layerIn[2].type = "contour"
    /\ Len(layerIn[2].coords) = 3
    /\ Len(outDxf.msp) = 3
    /\ outDxf.msp[1].kind = "LWPOLYLINE"

\* ------------------------------------------------------------------------
\* Properties of unified_blocked.py
\* ------------------------------------------------------------------------
Parsed == pc \notin {"idle", "main"}

Called == calls # <<>>

Over == pc \in {"finished", "exit"}

InDxfPipeline == Called /\ pipeline_type \in DxfPipelines

\* the place of a logged step in the order load, supports, raw, clean,
\* machine, parameters
StepRank(e) ==
    IF e.ev \in {"load_mesh", "stl_not_found"} THEN 1
    ELSE IF e.ev = "supports" THEN 2
    ELSE IF e.ev = "write_raw" THEN 3
    ELSE IF e.ev \in {"read_raw", "unreadable_raw", "skip_raw", "write_clean", "write_stl"} THEN 4
    ELSE IF e.ev \in {"read_clean", "unreadable_clean", "skip_clean", "write_machine"} THEN 5
    ELSE 6

\* C1: in a run of pipeline 1-3-5 or 2-5 started at stage 1 the steps come in
\* the order mesh load, supports (1-3-5 only), raw DXFs written, raw DXFs
\* read and clean DXFs written, machine files written, parameter file: no
\* step of an earlier kind follows one of a later kind, the mesh load comes
\* first, supports are generated in 1-3-5 only, and nothing follows the
\* writing of the parameter file.
C1_StepOrder ==
    (InDxfPipeline /\ start_stage = 1) =>
        /\ \A i, j \in 1..Len(log) : i < j => StepRank(log[i]) <= StepRank(log[j])
        /\ \A i \in 1..Len(log) : log[i].ev \in {"load_mesh", "stl_not_found"} <=> i = 1
        /\ Logged("supports") => pipeline_type = "1-3-5"
        /\ \A i \in 1..Len(log) :
              (pipeline_type = "1-3-5" /\ StepRank(log[i]) >= 3) => log[2].ev = "supports"
        /\ \A i \in 1..Len(log) : log[i].ev = "write_params" => i = Len(log)

C1_Witness ==
    /\ pc = "exit" /\ pipeline_type = "1-3-5" /\ start_stage = 1
    /\ Logged("supports") /\ Logged("write_raw") /\ Logged("write_clean")
    /\ Logged("write_machine") /\ log[Len(log)].ev = "write_params"
    /\ Len(SelectSeq(log, LAMBDA e : e.ev = "write_raw")) = 2

\* the stages from s on, in increasing order
StagesFrom(s) == [i \in 1..(4 - s) |-> s + i - 1]

\* the stage a logged step belongs to
StageOf(e) == IF StepRank(e) <= 3 THEN 1 ELSE IF StepRank(e) = 4 THEN 2 ELSE 3

\* C2: with start stage s (1 when the argument is absent) a DXF pipeline
\* executes exactly the stages k >= s, in increasing order: the stages run so
\* far are s, s+1, ... without a gap, every logged step belongs to a stage
\* that has run, and a run that did not stop on a missing STL has executed
\* every stage from s to 3 and attempted the parameter file when it ends.
C2_StagesFromStart ==
    /\ (Parsed /\ Len(sysargv) = 3) => start_stage = 1
    /\ InDxfPipeline =>
          /\ start_stage \in {1, 2, 3}
          /\ \A i \in 1..Len(ran) : ran[i] = start_stage + i - 1
          /\ \A i \in 1..Len(log) : \E k \in 1..Len(ran) : ran[k] = StageOf(log[i])
          /\ (Over /\ ~Logged("stl_not_found")) =>
                ran = StagesFrom(start_stage) /\ Logged("generate_params")

C2_Witness ==
    /\ pc = "exit" /\ pipeline_type = "2-5" /\ start_stage = 2
    /\ ran = <<2, 3>> /\ Logged("write_clean") /\ Logged("write_machine")
    /\ Logged("write_params")

\* the positions of the log where the event ev of file name stands
At(ev, name) == {i \in 1..Len(log) : log[i] = Event(ev, name)}

\* C8: a DXF file that cannot be read in stage 2 or stage 3 is skipped: no
\* clean DXF (stage 2) or machine file (stage 3) is written for it, and the
\* batch goes on, so that when the run is over every DXF file
\* of the input folder has been tried and every readable one with segments
\* and a writable target has its output file.
C8_UnreadableSkipped ==
    InDxfPipeline =>
        /\ \A f \in DOMAIN bruto :
              At("unreadable_raw", f) # {} =>
                  /\ At("write_clean", CleanName(f)) = {}
                  /\ \A i \in At("unreadable_raw", f) : log[i + 1] = Event("skip_raw", f)
        /\ \A f \in DOMAIN clean :
              At("unreadable_clean", f) # {} =>
                  /\ At("write_machine", MachineName(f)) = {}
                  /\ \A i \in At("unreadable_clean", f) : log[i + 1] = Event("skip_clean", f)
        /\ (\E k \in 1..Len(ran) : ran[k] = 2) /\ Over =>
              \A f \in DOMAIN bruto : IsDxfName(f) =>
                  IF Readable(bruto[f])
                  THEN /\ At("read_raw", f) # {}
                       /\ (get_line_segments_from_dxf(bruto[f]) # <<>>
                           /\ CleanName(f) \notin env.unwritable) =>
                              /\ CleanName(f) \in DOMAIN clean
                              /\ At("write_clean", CleanName(f)) # {}
                  ELSE At("unreadable_raw", f) # {}
        /\ (\E k \in 1..Len(ran) : ran[k] = 3) /\ Over =>
              \A f \in DOMAIN clean : IsDxfName(f) =>
                  IF Readable(clean[f])
                  THEN /\ At("read_clean", f) # {}
                       /\ MachineName(f) \notin env.unwritable =>
                              /\ MachineName(f) \in DOMAIN maquina
                              /\ At("write_machine", MachineName(f)) # {}
                  ELSE At("unreadable_clean", f) # {}

C8_Witness ==
    /\ pc = "exit" /\ pipeline_type \in DxfPipelines
    /\ \E i, j \in 1..Len(log) :
          i < j /\ log[i].ev = "unreadable_raw" /\ log[j].ev = "write_clean"
    /\ \E i, j \in 1..Len(log) :
          i < j /\ log[i].ev = "unreadable_clean" /\ log[j].ev = "write_machine"

\* the folder of the STL a DXF pipeline loads
StlFolder(type) == IF type = "1-3-5" THEN "Peca" ELSE "suporte"

\* C9: when the STL of the model does not exist as stage 1 runs, a DXF
\* pipeline reports it and returns: the report is the only step of the run,
\* no mesh is loaded, stage 1 is the only stage entered, no slicing and no
\* batch is started, and nothing is written to the output root.
C9_MissingStlReturns ==
    /\ (InDxfPipeline /\ Logged("stl_not_found")) =>
          /\ Over
          /\ Len(log) = 1
          /\ part = NoPart
          /\ ran = <<1>>
          /\ z_positions = <<>> /\ files = <<>>
          /\ root = EmptyFolder
    /\ (InDxfPipeline /\ start_stage = 1 /\ StlFolder(pipeline_type) \notin env.stl
        /\ pc \notin {"run_dxf", "stage1"}) => Logged("stl_not_found")

C9_Witness ==
    /\ pc = "exit" /\ pipeline_type = "2-5" /\ Logged("stl_not_found")
    /\ start_stage = 1 /\ "Peca" \in env.stl

\* the arguments after the script name
Args == Tail(sysargv)

\* the texts of the integers 1, 2 and 3 among the arguments tried
StageTexts == {"1", "2", "3", "+2"}

PipelineTypes == {"1-3-4", "1-3-5", "2-5"}

\* a command line the validation rejects
Rejected ==
    \/ Len(Args) \notin {2, 3}
    \/ Len(Args) = 3 /\ Args[3] \notin StageTexts
    \/ Args[2] \notin PipelineTypes

\* the start stage a command line gives: its third argument, 1 without one
GivenStage ==
    IF Len(Args) = 3 THEN (IF Args[3] = "+2" THEN 2 ELSE IF Args[3] = "1" THEN 1
                           ELSE IF Args[3] = "2" THEN 2 ELSE 3)
    ELSE 1

PipelineFunction(type) ==
    IF type = "1-3-4" THEN "run_original_stl_to_supported_stl"
    ELSE IF type = "1-3-5" THEN "run_original_stl_to_dxf_pipeline"
    ELSE "run_supported_stl_to_dxf_pipeline"

\* the validation and the single call, given the start_stage argument that
\* the call of pipeline 1-3-4 carries
Validated(stage134) ==
    /\ Len(calls) <= 1
    /\ pc \in {"main", "dispatch"} => calls = <<>>
    /\ (Rejected /\ pc \notin {"main", "dispatch"}) =>
          pc = "exit" /\ exitStatus = 1 /\ calls = <<>>
    /\ (~Rejected /\ pc \notin {"main", "dispatch"}) =>
          /\ calls = <<Call(PipelineFunction(Args[2]), Args[1],
                            IF Args[2] = "1-3-4" THEN stage134 ELSE <<GivenStage>>)>>
          /\ exitStatus # 1

\* C10 as stated: a rejected command line ends with status 1 and no call of a
\* pipeline function; any other command line leads to exactly one call of
\* one pipeline function, with the model name and the start stage given.
C10_Original == Validated(<<GivenStage>>)

\* C10: a rejected command line (not 2 or 3 arguments, a third argument that
\* is not an integer in {1,2,3}, or an unknown pipeline type) ends with
\* status 1 and no call of a pipeline function; any other command line leads
\* to exactly one call, of the function of the pipeline type, with the model
\* name given and, for pipelines 1-3-5 and 2-5, the start stage given;
\* pipeline 1-3-4 is called without a start stage.
C10_ValidatedCall == Validated(<<>>)

C10_Witness ==
    /\ pc = "exit" /\ exitStatus = 0
    /\ sysargv = <<SCRIPT, "Aleta", "1-3-4", "2">>
    /\ calls = <<Call("run_original_stl_to_supported_stl", "Aleta", <<>>)>>
    /\ Logged("write_supported_stl")

\* ------------------------------------------------------------------------
\* The parameter file
\* ------------------------------------------------------------------------
\* a parameter-file function has been called
ParamCalled == step \in {"auto", "params"}

\* the lines of the file the call left
ParamLines == Lines(paramOut.file.text)

\* the line that follows the first '[key]' line of the file
WrittenValue(key) ==
    LET lines == ParamLines
        n == CHOOSE n \in 1..Len(lines) :
                 /\ lines[n] = "[" \o key \o "]"
                 /\ \A m \in 1..(n - 1) : lines[m] # lines[n]
    IN  lines[n + 1]

\* the call gave machine settings that hold the key
Overridden(key) ==
    step = "auto" /\ paramIn.settings_given /\ HasKey(paramIn.machine_settings, key)

\* the number of names of the folder with one of the two suffixes in any case
LayerFileCount(folder) ==
    Cardinality({f \in DOMAIN folder :
                    /\ Len(f) >= 4
                    /\ Lower(SubSeq(f, Len(f) - 3, Len(f))) \in {".dxf", ".txt"}})

TableKeys ==
    <<"PART NAME", "MINX", "MAXX", "MINY", "MAXY", "NUMBER OF LAYERS", "LAYER THICKNESS",
      "HATCH POWER 1", "HATCH SPEED 1", "VBPP1", "MAGNIFICATION 1",
      "HATCH POWER 2", "HATCH SPEED 2", "VBPP2", "MAGNIFICATION 2",
      "HATCH POWER 3", "HATCH SPEED 3", "VBPP3", "MAGNIFICATION 3",
      "NUMBER OF PASSES", "CONTOUR POWER", "CONTOUR SPEED">>

\* the key of a '[KEY]' line
IsKeyLine(line) ==
    Len(line) >= 2 /\ CharAt(line, 1) = "[" /\ CharAt(line, Len(line)) = "]"

KeyOf(line) == SubSeq(line, 2, Len(line) - 1)

\* C12: the file generate_manufacturing_parameters_file writes has exactly
\* 44 lines, a '[KEY]' line followed by a value line for each of the 22
\* parameters in the fixed order that begins PART NAME, MINX, MAXX, MINY,
\* MAXY, NUMBER OF LAYERS, LAYER THICKNESS, every key once, and is named
\* '<part_name>_auto_machine_parameters.txt'.
C12_FlatTable ==
    (step = "params" /\ paramOut.file.written) =>
        LET lines == ParamLines
        IN  /\ Len(lines) = 44
            /\ \A n \in 1..22 :
                  /\ IsKeyLine(lines[2 * n - 1])
                  /\ KeyOf(lines[2 * n - 1]) = TableKeys[n]
                  /\ lines[2 * n] # ""
                  /\ ~IsKeyLine(lines[2 * n])
            /\ \A n, m \in 1..22 : n # m => lines[2 * n - 1] # lines[2 * m - 1]
            /\ lines[2] = paramIn.part_name[1]
            /\ lines[14] = FloatStr(paramIn.layer_thickness)
            /\ paramOut.name = paramIn.part_name[1] \o "_auto_machine_parameters.txt"

\* the table of part M2 was written for a folder of layer files
C12_Witness ==
    /\ step = "params"
    /\ paramOut.file.written
    /\ paramOut.name = "M2_auto_machine_parameters.txt"
    /\ Len(ParamLines) = 44
    /\ ParamLines[1] = "[PART NAME]"
    /\ ParamLines[44] = "1001"

\* the position of the first '.' of a text, 0 if it has none
RECURSIVE DotAt(_, _)
DotAt(str, n) ==
    IF n > Len(str) THEN 0
    ELSE IF CharAt(str, n) = "." THEN n
    ELSE DotAt(str, n + 1)

RECURSIVE Pow10(_)
Pow10(n) == IF n = 0 THEN 1 ELSE 10 * Pow10(n - 1)

\* float(text) in 1e-7 units, for a decimal text of at most 7 decimals
ParseFloat(str) ==
    LET negative == str # "" /\ CharAt(str, 1) = "-"
        digits == IF negative THEN SubSeq(str, 2, Len(str)) ELSE str
        dot == DotAt(digits, 1)
        whole == IF dot = 0 THEN digits ELSE SubSeq(digits, 1, dot - 1)
        frac == IF dot = 0 THEN "" ELSE SubSeq(digits, dot + 1, Len(digits))
        magnitude == ParseNat(whole, 0) * 10000000 + ParseNat(frac, 0) * Pow10(7 - Len(frac))
    IN  IF negative THEN -magnitude ELSE magnitude

\* the segments get_dxf_line_segments extracts from the analysed files
AnalyzedSegments ==
    LET dxf_files == ListLayerFiles(paramIn.folder)
    IN  Flatten([n \in 1..Len(dxf_files) |-> get_dxf_line_segments(paramIn.folder[dxf_files[n]])])

\* the four numbers written under MINX, MAXX, MINY and MAXY
WrittenBox ==
    [min_x |-> ParseFloat(WrittenValue("MINX")), max_x |-> ParseFloat(WrittenValue("MAXX")),
     min_y |-> ParseFloat(WrittenValue("MINY")), max_y |-> ParseFloat(WrittenValue("MAXY"))]

\* C13: the MINX, MAXX, MINY and MAXY written by generate_auto_parameters_file
\* bound every endpoint of every segment extracted from the analysed files,
\* and are all zero exactly when no segment was extracted.
C13_BoundingBox ==
    (step = "auto" /\ paramOut.file.written) =>
        LET box == WrittenBox
            segments == AnalyzedSegments
        IN  /\ \A n \in 1..Len(segments) : \A e \in 1..2 :
                  /\ box.min_x <= segments[n][e][1] /\ segments[n][e][1] <= box.max_x
                  /\ box.min_y <= segments[n][e][2] /\ segments[n][e][2] <= box.max_y
            /\ (segments = <<>>) <=>
                  (box = [min_x |-> 0, max_x |-> 0, min_y |-> 0, max_y |-> 0])

\* the items the caller's machine_settings hold (none for None)
GivenSettings == IF paramIn.settings_given THEN paramIn.machine_settings ELSE <<>>

\* machine_settings[key]
SettingOf(key) ==
    LET items == GivenSettings
    IN  items[CHOOSE n \in 1..Len(items) : items[n][1] = key][2]

\* the text a parameter has when machine_settings leaves it alone
DefaultText(key) ==
    IF key = "PART NAME"
    THEN (IF paramIn.part_name = <<>> THEN paramIn.folder_name ELSE paramIn.part_name[1])
    ELSE IF key = "NUMBER OF LAYERS" THEN ToString(LayerFileCount(paramIn.folder))
    ELSE IF key = "LAYER THICKNESS" THEN FloatStr(paramIn.layer_thickness)
    ELSE LET defaults == DefaultParameters("", 0, 0)
         IN  Str(defaults[CHOOSE n \in 1..Len(defaults) : defaults[n][1] = key][2])

\* C14: in the file generate_auto_parameters_file writes, every key of
\* machine_settings carries the value machine_settings gives it, every
\* other parameter its default or derived value; the 22 keys of the
\* table keep their positions and the new keys of machine_settings
\* follow them in the order given; with machine_settings None or empty
\* the file holds exactly the defaults.
C14_SettingsOverride ==
    (step = "auto" /\ paramOut.file.written) =>
        LET settings == GivenSettings
            new_keys == SelectSeq(Keys(settings), LAMBDA k : \A n \in 1..22 : TableKeys[n] # k)
            lines == ParamLines
            keys == [n \in 1..(Len(lines) \div 2) |-> KeyOf(lines[2 * n - 1])]
        IN  /\ Len(lines) = 2 * (22 + Len(new_keys))
            /\ keys = TableKeys \o new_keys
            /\ \A n \in 1..Len(keys) :
                  lines[2 * n] = IF HasKey(settings, keys[n])
                                 THEN Str(SettingOf(keys[n]))
                                 ELSE DefaultText(keys[n])
            /\ settings = <<>> => paramOut.file.text = ParameterText_MP(
                  DefaultParameters(DefaultText("PART NAME"), LayerFileCount(paramIn.folder),
                                    paramIn.layer_thickness))

\* a call that replaced CONTOUR SPEED in place and added LASER MODE
C14_Witness ==
    /\ step = "auto"
    /\ paramOut.file.written
    /\ Keys(GivenSettings) = <<"LASER MODE", "CONTOUR SPEED">>
    /\ Len(ParamLines) = 46
    /\ ParamLines[43] = "[CONTOUR SPEED]" /\ ParamLines[44] = "900"
    /\ ParamLines[45] = "[LASER MODE]" /\ ParamLines[46] = "PULSED"

\* ------------------------------------------------------------------------
\* The hatch angle of each layer
\* ------------------------------------------------------------------------
\* C15: in slice_and_export_raw_dxfs the z position of index k (k = 0, 1,
\* 2, ...) is hatched with angle HATCH_ANGLE_INITIAL + k * HATCH_ANGLE_INCREMENT,
\* the first one with HATCH_ANGLE_INITIAL.
C15_HatchAngles ==
    \A k \in 0..(Len(angles) - 1) :
        angles[k + 1] = HATCH_ANGLE_INITIAL + k * HATCH_ANGLE_INCREMENT

\* ------------------------------------------------------------------------
\* Termination
\* ------------------------------------------------------------------------
\* the process has exited: with status 1, or with status 0 after the last
\* print of __main__
Exited == pc = "exit" /\ exitStatus \in {0, 1}

\* a step taken inside one of the loops leaves the collection the loop
\* iterates over as it was when the loop started
LoopsFixed ==
    /\ (pc = "slice_loop" => z_positions' = z_positions)
    /\ (pc \in {"clean_loop", "machine_loop"} => files' = files)
    /\ (pc = "exit" => pc' = "exit")
    /\ (pc = "finished" => pc' = "exit" /\ exitStatus' = 0)

\* C16: every run of unified_blocked.py terminates, with exit status 1 or
\* through the final 'finished' line, and each loop iterates over a
\* collection that does not change while the loop runs.
C16_Terminates == <>Exited /\ [][LoopsFixed]_vars

\* a run that went through the three loops and exited with status 0
C16_Witness ==
    /\ pc = "exit" /\ exitStatus = 0
    /\ Len(angles) >= 2
    /\ ran = <<1, 2, 3>>
    /\ \E n \in 1..Len(log) : log[n].ev = "write_machine"

====
